---- MODULE Spec2Model ----
(***************************************************************************)
(* Model of the lab-discovery pipeline of src/src/handlers/discover.py:    *)
(* domain resolution, department location, research-page discovery, lab    *)
(* extraction and personnel enrichment, with the process-wide              *)
(* LLM-suggestion cache.  Python strings are TLA+ strings; the string      *)
(* methods the code uses (lower, strip, split, startswith, in, ...) are    *)
(* operators over them, computed character by character.                   *)
(***************************************************************************)
EXTENDS Integers, Sequences, FiniteSets, TLC

VARIABLES
    world,      \* the outside world: configuration, network, search engine, LLM
    cache,      \* _GEMINI_CACHE: key -> [url, ts]
    clock,      \* time.time()
    call,       \* the latest call of discover_labs_data: its body and outcome
    log,        \* per call of discover_labs_data so far: arguments, time, the
                \* LLM suggestion calls it issued, how find_research_url ended
    guess,      \* a call of _guess_email_for_name: its arguments and result
    ext,        \* a call of _extract_lab_areas: its argument, the page, the result
    res,        \* a call of get_root_domain: its argument and result
    dep,        \* a call of get_department_url: its arguments and result
    running     \* invocations of find_research_url in progress side by side:
                \* per invocation its arguments, its position, the answer of
                \* the LLM it holds and the cache entries it has written

vars == <<world, cache, clock, call, log, guess, ext, res, dep, running>>
svc == <<cache, clock, call, log, running>>

(***************************************************************************)
(* Python str methods                                                      *)
(***************************************************************************)
UpperChars == "ABCDEFGHIJKLMNOPQRSTUVWXYZ"
LowerChars == "abcdefghijklmnopqrstuvwxyz"

\* s[i] (1-based), a one-character string
Ch(s, i) == SubSeq(s, i, i)

\* the slice s[i-1:j] (1-based, both ends included), clipped to the string
Sub(s, i, j) ==
    LET lo == IF i < 1 THEN 1 ELSE i
        hi == IF j > Len(s) THEN Len(s) ELSE j
    IN  IF lo > hi THEN "" ELSE SubSeq(s, lo, hi)

\* character classes
UpperSet == {Ch(UpperChars, i) : i \in 1..Len(UpperChars)}
LowerSet == {Ch(LowerChars, i) : i \in 1..Len(LowerChars)}
LetterSet == UpperSet \cup LowerSet
DigitSet == {Ch("0123456789", i) : i \in 1..10}
SpaceSet == {" ", "\n", "\t"}
LowerMap ==
    [u \in UpperSet |->
        Ch(LowerChars, CHOOSE i \in 1..Len(UpperChars) : Ch(UpperChars, i) = u)]

\* str.lower() on one character
LowerCh(c) == IF c \in UpperSet THEN LowerMap[c] ELSE c

RECURSIVE Lower(_)
\* str.lower()
Lower(s) == IF s = "" THEN "" ELSE LowerCh(Ch(s, 1)) \o Lower(Tail(s))

\* str.isspace() on one character
IsSpace(c) == c \in SpaceSet

\* str.isupper() / str.islower() / letter, on one character
IsUpperCh(c) == c \in UpperSet
IsLowerCh(c) == c \in LowerSet
IsLetter(c) == c \in LetterSet

RECURSIVE LStrip(_)
LStrip(s) == IF s # "" /\ IsSpace(Ch(s, 1)) THEN LStrip(Tail(s)) ELSE s

RECURSIVE RStrip(_)
RStrip(s) ==
    IF s # "" /\ IsSpace(Ch(s, Len(s))) THEN RStrip(SubSeq(s, 1, Len(s) - 1)) ELSE s

\* str.strip()
Strip(s) == RStrip(LStrip(s))

\* str.startswith(p), str.endswith(p), p in s
StartsWith(s, p) == Len(p) <= Len(s) /\ SubSeq(s, 1, Len(p)) = p
EndsWith(s, p) == Len(p) <= Len(s) /\ SubSeq(s, Len(s) - Len(p) + 1, Len(s)) = p
Contains(s, p) == \E i \in 1..(Len(s) - Len(p) + 1) : SubSeq(s, i, i + Len(p) - 1) = p

RECURSIVE SplitFrom(_, _)
\* the tokens of s, given the token `cur` being read
SplitFrom(s, cur) ==
    IF s = "" THEN (IF cur = "" THEN <<>> ELSE <<cur>>)
    ELSE IF IsSpace(Ch(s, 1))
         THEN (IF cur = "" THEN <<>> ELSE <<cur>>) \o SplitFrom(Tail(s), "")
         ELSE SplitFrom(Tail(s), cur \o Ch(s, 1))

\* str.split() with no argument: the maximal runs of non-whitespace
Split(s) == SplitFrom(s, "")

MinOf(S) == CHOOSE x \in S : \A y \in S : x <= y
MaxOf(S) == CHOOSE x \in S : \A y \in S : x >= y

\* the index of the first occurrence of p in s at or after `from`, 0 if none
\* (str.find, 1-based)
FindFrom(s, p, from) ==
    LET hits == {i \in from..(Len(s) - Len(p) + 1) : SubSeq(s, i, i + Len(p) - 1) = p}
    IN  IF hits = {} THEN 0 ELSE MinOf(hits)

RECURSIVE RunEnd(_, _, _)
\* the end of the longest run of characters of the class cs that starts at i
\* (i - 1 when the run is empty)
RunEnd(s, i, cs) ==
    IF i <= Len(s) /\ Ch(s, i) \in cs THEN RunEnd(s, i + 1, cs) ELSE i - 1

\* str.replace(old, "") for the first occurrence only is enough where old
\* occurs once; this removes every non-overlapping occurrence, left to right
RECURSIVE Remove(_, _)
Remove(s, old) ==
    IF old = "" \/ FindFrom(s, old, 1) = 0 THEN s
    ELSE LET i == FindFrom(s, old, 1)
         IN  SubSeq(s, 1, i - 1) \o Remove(SubSeq(s, i + Len(old), Len(s)), old)

RECURSIVE SplitOn(_, _, _)
\* re.split on single-character separators: the pieces between separators
SplitOn(s, seps, cur) ==
    IF s = "" THEN <<cur>>
    ELSE IF Ch(s, 1) \in seps THEN <<cur>> \o SplitOn(Tail(s), seps, "")
         ELSE SplitOn(Tail(s), seps, cur \o Ch(s, 1))

RECURSIVE JoinWith(_, _)
\* sep.join(parts)
JoinWith(parts, sep) ==
    IF parts = <<>> THEN ""
    ELSE IF Len(parts) = 1 THEN parts[1]
         ELSE parts[1] \o sep \o JoinWith(Tail(parts), sep)

\* x in list
InSeq(x, q) == \E i \in 1..Len(q) : q[i] = x

RECURSIVE SelectNonEmptyStripped(_)
\* [p.strip() for p in parts if p.strip()]
SelectNonEmptyStripped(parts) ==
    IF parts = <<>> THEN <<>>
    ELSE (IF Strip(parts[1]) = "" THEN <<>> ELSE <<Strip(parts[1])>>)
            \o SelectNonEmptyStripped(Tail(parts))

\* items[:n]
Take(items, n) == SubSeq(items, 1, IF Len(items) < n THEN Len(items) ELSE n)

RECURSIVE Rep(_, _)
\* s * n
Rep(s, n) == IF n = 0 THEN "" ELSE s \o Rep(s, n - 1)

\* Optional[str]: None is the empty tuple, a value s is <<s>>
None == <<>>
Some(s) == <<s>>
IsNone(o) == o = <<>>
Val(o) == o[1]

\* a local variable: `name = value`, then the rest of the function body
With(value, Rest(_)) == Rest(value)

RECURSIVE StrsUpTo(_, _)
\* every string over the alphabet `alpha` of length at most n
StrsUpTo(alpha, n) ==
    IF n = 0 THEN {""}
    ELSE LET shorter == StrsUpTo(alpha, n - 1)
         IN  shorter \cup {s \o c : s \in shorter, c \in alpha}

(***************************************************************************)
(* Regular expressions of the module                                       *)
(***************************************************************************)
\* \w, [:\s], [\w.-]
WordSet == LetterSet \cup DigitSet \cup {"_"}
FacSepSet == SpaceSet \cup {":"}
MailSet == WordSet \cup {".", "-"}
IsWordCh(c) == c \in WordSet
IsMailCh(c) == c \in MailSet

\* PROF_NAME_RE anchored at i: the end of the match, 0 when there is none.
\*   \b([A-Z][a-z]+(?:\s+[A-Z]\.)?\s+[A-Z][a-z]+)\b
\* CapWord(j) is the end of [A-Z][a-z]+ at j (0: no match); every quantifier
\* is greedy and none can give back characters and still match.
ProfNameEndAt(s, i) ==
    LET CapWord(j) ==
            IF j <= Len(s) /\ IsUpperCh(Ch(s, j)) /\ RunEnd(s, j + 1, LowerSet) > j
            THEN RunEnd(s, j + 1, LowerSet) ELSE 0
        Last(j) ==      \* \s+[A-Z][a-z]+\b after position j
            LET w == RunEnd(s, j + 1, SpaceSet)
                e == CapWord(w + 1)
            IN  IF w > j /\ e > 0 /\ (e = Len(s) \/ ~IsWordCh(Ch(s, e + 1)))
                THEN e ELSE 0
        Middle(j) ==    \* (?:\s+[A-Z]\.) after position j: its end, 0 if absent
            LET w == RunEnd(s, j + 1, SpaceSet)
            IN  IF w > j /\ w + 2 <= Len(s) /\ IsUpperCh(Ch(s, w + 1))
                        /\ Ch(s, w + 2) = "."
                THEN w + 2 ELSE 0
        Either(viaMiddle, direct) == IF viaMiddle > 0 THEN viaMiddle ELSE direct
        After(e1, m) ==
            IF ~(i = 1 \/ ~IsWordCh(Ch(s, i - 1))) \/ e1 = 0 THEN 0
            ELSE Either(IF m > 0 THEN Last(m) ELSE 0, Last(e1))
        From(e1) == After(e1, IF e1 = 0 THEN 0 ELSE Middle(e1))
    IN  From(CapWord(i))

\* PROF_NAME_RE.search(s): group(1) of the leftmost match, None without one
ProfNameSearch(s) ==
    LET At(i) == Some(SubSeq(s, i, ProfNameEndAt(s, i)))
        Leftmost(starts) == IF starts = {} THEN None ELSE At(MinOf(starts))
    IN  Leftmost({i \in 1..Len(s) : IsUpperCh(Ch(s, i)) /\ ProfNameEndAt(s, i) > 0})

\* re.search(r"(?:Faculty|Professors?)[:\s]+(.+)", s, re.I): group(1) of the
\* leftmost match, None without one.  The texts of the model hold no newline
\* inside a text node, so "." matches every character here.
FacultyGroupAt(s, i) ==
    LET kws == {kw \in {"faculty", "professors", "professor"} :
                    /\ LowerCh(Ch(s, i)) = Ch(kw, 1)
                    /\ i + Len(kw) - 1 <= Len(s)
                    /\ Lower(SubSeq(s, i, i + Len(kw) - 1)) = kw
                    /\ i + Len(kw) <= Len(s)
                    /\ Ch(s, i + Len(kw)) \in FacSepSet}
    IN  IF kws = {} THEN None
        ELSE LET kw == CHOOSE k \in kws : TRUE
                 a == i + Len(kw)                 \* first separator
                 z == RunEnd(s, a, FacSepSet)      \* last separator of the run
             IN  IF z < Len(s) THEN Some(SubSeq(s, z + 1, Len(s)))
                 ELSE IF z > a THEN Some(SubSeq(s, z, Len(s)))
                      ELSE None

FacultySearch(s) ==
    LET Leftmost(starts) == IF starts = {} THEN None ELSE FacultyGroupAt(s, MinOf(starts))
    IN  Leftmost({i \in 1..Len(s) : ~IsNone(FacultyGroupAt(s, i))})

\* [p.strip() for p in re.split(r",|;", group) if p.strip()]
SplitNames(group) == SelectNonEmptyStripped(SplitOn(group, {",", ";"}, ""))

\* re.search(r"[\w.-]+@[\w.-]+\.\w+", s): group(0) of the leftmost match
EmailEndAt(s, i) ==
    \* [\w.-]+ from i (greedy, giving back as needed), "@", then the longest
    \* [\w.-]+\.\w+ : the domain run must hold a "." followed by word characters
    LET ats == {a \in (i + 1)..Len(s) :
                    Ch(s, a) = "@" /\ \A k \in i..(a - 1) : IsMailCh(Ch(s, k))}
    IN  IF i > Len(s) \/ ats = {} THEN 0
        ELSE LET a == MinOf(ats)
                 r == RunEnd(s, a + 1, MailSet)
                 ends == {e \in (a + 3)..r :
                            /\ IsWordCh(Ch(s, e))
                            /\ \E d \in (a + 2)..(e - 1) :
                                  /\ Ch(s, d) = "."
                                  /\ \A k \in (d + 1)..e : IsWordCh(Ch(s, k))}
             IN  IF ends = {} THEN 0 ELSE MaxOf(ends)

EmailSearch(s) ==
    LET At(i) == Some(SubSeq(s, i, EmailEndAt(s, i)))
        Leftmost(starts) == IF starts = {} THEN None ELSE At(MinOf(starts))
    IN  Leftmost({i \in 1..Len(s) : IsMailCh(Ch(s, i)) /\ EmailEndAt(s, i) > 0})

(***************************************************************************)
(* urllib.parse                                                            *)
(***************************************************************************)
\* the index of the ":" that ends the scheme of u, 0 when u has no scheme
SchemeEnd(u) ==
    LET At(c) == IF c > 1 /\ \A k \in 1..(c - 1) : IsLetter(Ch(u, k)) THEN c ELSE 0
    IN  At(FindFrom(u, ":", 1))

\* urlparse(u).scheme
UrlScheme(u) == Lower(Sub(u, 1, SchemeEnd(u) - 1))

\* the index where the netloc of u starts, 0 when u has none ("//" must
\* follow the scheme directly)
NetStart(u) ==
    LET After(c) == IF Sub(u, c + 1, c + 2) = "//" THEN c + 3 ELSE 0
    IN  After(SchemeEnd(u))

\* the first index at or after `from` of a character of cs, Len(u) + 1 if none
FirstOf(u, from, cs) ==
    LET First(at) == IF at = {} THEN Len(u) + 1 ELSE MinOf(at)
    IN  First({k \in from..Len(u) : Ch(u, k) \in cs})

\* the index where the path of u starts (Len(u) + 1 when the path is empty)
PathStart(u) ==
    LET After(n) == IF n = 0 THEN SchemeEnd(u) + 1 ELSE FirstOf(u, n, {"/", "?", "#"})
    IN  After(NetStart(u))

\* urlparse(u).netloc
NetLoc(u) ==
    LET From(n) == IF n = 0 THEN "" ELSE Sub(u, n, FirstOf(u, n, {"/", "?", "#"}) - 1)
    IN  From(NetStart(u))

\* urlparse(u).path: from PathStart to before the first "?" or "#"
UrlPath(u) ==
    LET From(p) == Sub(u, p, FirstOf(u, p, {"?", "#"}) - 1)
    IN  From(PathStart(u))

\* urljoin(base, ref) for an absolute http(s) base without query or fragment,
\* and ref without "." or ".." segments
UrlJoin(base, ref) ==
    LET DirOf(bpath, slashes) ==
            IF slashes = {} THEN "/" ELSE SubSeq(bpath, 1, MaxOf(slashes))
        Dir(bpath) == DirOf(bpath, {k \in 1..Len(bpath) : Ch(bpath, k) = "/"})
        Join(bscheme, rscheme, origin) ==
            IF ref = "" THEN base
            ELSE IF rscheme # "" THEN ref
            ELSE IF StartsWith(ref, "//") THEN bscheme \o ":" \o ref
            ELSE IF StartsWith(ref, "/") THEN origin \o ref
            ELSE IF StartsWith(ref, "#")
                 THEN (IF ref = "#" THEN base ELSE base \o ref)
            ELSE IF StartsWith(ref, "?") THEN base \o ref
            ELSE origin \o Dir(UrlPath(base)) \o ref
    IN  Join(UrlScheme(base), UrlScheme(ref), SubSeq(base, 1, PathStart(base) - 1))

(***************************************************************************)
(* The outside world                                                       *)
(*                                                                         *)
(* env is everything the process reads from outside: the configuration     *)
(* (which LLM libraries and keys are present), the reachable domains, the  *)
(* search engine's answers, the HTTP answers and the LLM's answers.  Every *)
(* operation returns, beside its result, the sequence `ev` of the outside  *)
(* calls it issued, in order: <<kind, argument>>.                          *)
(***************************************************************************)
Ev(kind, arg) == <<kind, arg>>
EvKinds(ev) == [i \in 1..Len(ev) |-> ev[i][1]]
CountKind(ev, kind) == Cardinality({i \in 1..Len(ev) : ev[i][1] = kind})

\* _domain_live(domain): SESSION.get answers without a RequestException
DomainLive(env, domain) == domain \in env.live

SearchMax == 5

\* the phrasing of a query built by get_root_domain or get_department_url;
\* the search engine of the model answers by phrasing
QueryPhrasing(query) ==
    IF EndsWith(query, " official website") THEN "official"
    ELSE IF EndsWith(query, " .edu domain") THEN "edu"
    ELSE IF EndsWith(query, " university website") THEN "univ"
    ELSE IF StartsWith(query, "computer science ") THEN "cs"
    ELSE IF StartsWith(query, "cs department ") THEN "csdept"
    ELSE IF Contains(query, "\" department ") THEN "dept"
    ELSE "school"

\* safe_text_search(query, max_results): the hrefs of the first max_results
\* result anchors; [] when the result page cannot be fetched.  Every hit is
\* a dict {"href": href} with a non-empty href (lines 66-69).
SafeTextSearch(env, query, max_results) ==
    IF ~env.search_up THEN <<>>
    ELSE Take(env.search[QueryPhrasing(query)], max_results)

\* urlparse raises ValueError ("Invalid IPv6 URL") on a netloc with an
\* unbalanced bracket
UrlParseRaises(u) ==
    LET Unbalanced(net) == Contains(net, "[") # Contains(net, "]")
    IN  Unbalanced(NetLoc(u))

(***************************************************************************)
(* Step 1: get_root_domain                                                 *)
(***************************************************************************)
KnownDomains ==
    [k \in {"georgia institute of technology", "georgia tech",
            "massachusetts institute of technology",
            "california institute of technology",
            "illinois institute of technology"} |->
        CASE k = "georgia institute of technology" -> "gatech.edu"
          [] k = "georgia tech" -> "gatech.edu"
          [] k = "massachusetts institute of technology" -> "mit.edu"
          [] k = "california institute of technology" -> "caltech.edu"
          [] k = "illinois institute of technology" -> "iit.edu"]

StopWords == {"of", "the", "at", "for", "and", "in"}

\* lines 289-293
DomainQueries(college) ==
    << college \o " official website",
       college \o " .edu domain",
       college \o " university website" >>

RECURSIVE LettersOnly(_)
\* re.sub(r"[^a-zA-Z ]", " ", s)
LettersOnly(s) ==
    IF s = "" THEN ""
    ELSE (IF IsLetter(Ch(s, 1)) \/ Ch(s, 1) = " " THEN Ch(s, 1) ELSE " ")
            \o LettersOnly(Tail(s))

RECURSIVE DropStopWords(_)
DropStopWords(ts) ==
    IF ts = <<>> THEN <<>>
    ELSE (IF Lower(ts[1]) \in StopWords THEN <<>> ELSE <<Lower(ts[1])>>)
            \o DropStopWords(Tail(ts))

RECURSIVE Initials(_)
Initials(ts) == IF ts = <<>> THEN "" ELSE Ch(ts[1], 1) \o Initials(Tail(ts))

\* lines 338-354: the candidate domains of _guess_domain_from_tokens
GuessCandidates(college) ==
    LET tokens == DropStopWords(Split(LettersOnly(college)))
        abbr == Initials(tokens)
        last == tokens[Len(tokens)]
        candidates == << abbr \o ".edu",
                         abbr \o Ch(last, 1) \o ".edu",
                         abbr \o "a.edu",
                         abbr \o "u.edu",
                         last \o ".edu" >>
    IN  IF tokens = <<>> THEN <<>>
        ELSE IF Len(college) <= 5 /\ ~Contains(college, " ")
             THEN <<Lower(college) \o ".edu">> \o candidates
             ELSE candidates

RECURSIVE ProbeFirstLive(_, _, _)
\* lines 356-360: probe the candidates in order, return the first live one
ProbeFirstLive(env, cands, ev) ==
    IF cands = <<>> THEN [dom |-> None, ev |-> ev]
    ELSE IF DomainLive(env, cands[1])
         THEN [dom |-> Some(cands[1]), ev |-> Append(ev, Ev("probe", cands[1]))]
         ELSE ProbeFirstLive(env, Tail(cands), Append(ev, Ev("probe", cands[1])))

RECURSIVE ScanDomainHits(_, _, _)
\* lines 318-325: the hits of one query
ScanDomainHits(env, hits, ev) ==
    IF hits = <<>> THEN [dom |-> None, ev |-> ev]
    ELSE IF UrlParseRaises(hits[1]) THEN [dom |-> None, ev |-> ev]
    ELSE With(NetLoc(hits[1]), LAMBDA host :
         IF ~EndsWith(host, ".edu") THEN ScanDomainHits(env, Tail(hits), ev)
         ELSE IF DomainLive(env, host)
              THEN [dom |-> Some(host), ev |-> Append(ev, Ev("probe", host))]
              ELSE ScanDomainHits(env, Tail(hits), Append(ev, Ev("probe", host))))

RECURSIVE SearchDomain(_, _, _)
\* lines 315-328: the queries in order
SearchDomain(env, queries, ev) ==
    IF queries = <<>> THEN [dom |-> None, ev |-> ev]
    ELSE With(ScanDomainHits(env, SafeTextSearch(env, queries[1], SearchMax),
                             Append(ev, Ev("search", queries[1]))), LAMBDA r :
         IF ~IsNone(r.dom) THEN r ELSE SearchDomain(env, Tail(queries), r.ev))

\* lines 370-390: the name `openai` is bound nowhere in the module (it is
\* never imported), so with a key configured line 373 raises NameError, which
\* line 389 catches; without a key the block does nothing.  No request goes out.
LLMDomain(env, college, ev) == [dom |-> None, ev |-> ev]

\* get_root_domain with the abbreviation guess of lines 363-365 tried before
\* the search queries of lines 315-328
GetRootDomain_GuessFirst(env, college) ==
    LET key == Lower(Strip(college))
        known == key \in DOMAIN KnownDomains
        ev0 == IF known THEN <<Ev("probe", KnownDomains[key])>> ELSE <<>>
    IN  IF known /\ DomainLive(env, KnownDomains[key])
        THEN [dom |-> Some(KnownDomains[key]), src |-> "known", ev |-> ev0]
        ELSE
        With(ProbeFirstLive(env, GuessCandidates(college), ev0), LAMBDA guessed :
        IF ~IsNone(guessed.dom)
        THEN [dom |-> guessed.dom, src |-> "guess", ev |-> guessed.ev]
        ELSE
        With(SearchDomain(env, DomainQueries(college), guessed.ev), LAMBDA searched :
        IF ~IsNone(searched.dom)
        THEN [dom |-> searched.dom, src |-> "search", ev |-> searched.ev]
        ELSE [dom |-> None, src |-> "none", ev |-> searched.ev]))

\* the alias lookup of lines 306-313 taken on trust, without the probe
GetRootDomain_TrustAlias(env, college) ==
    LET key == Lower(Strip(college))
    IN  IF key \in DOMAIN KnownDomains
        THEN [dom |-> Some(KnownDomains[key]), src |-> "known", ev |-> <<>>]
        ELSE
        With(SearchDomain(env, DomainQueries(college), <<>>), LAMBDA searched :
        IF ~IsNone(searched.dom)
        THEN [dom |-> searched.dom, src |-> "search", ev |-> searched.ev]
        ELSE
        With(ProbeFirstLive(env, GuessCandidates(college), searched.ev), LAMBDA guessed :
        IF ~IsNone(guessed.dom)
        THEN [dom |-> guessed.dom, src |-> "guess", ev |-> guessed.ev]
        ELSE [dom |-> None, src |-> "none", ev |-> guessed.ev]))

\* the alias lookup of line 306 without the normalisation of the name
GetRootDomain_RawKey(env, college) ==
    LET key == college
        known == key \in DOMAIN KnownDomains
        ev0 == IF known THEN <<Ev("probe", KnownDomains[key])>> ELSE <<>>
    IN  IF known /\ DomainLive(env, KnownDomains[key])
        THEN [dom |-> Some(KnownDomains[key]), src |-> "known", ev |-> ev0]
        ELSE
        With(SearchDomain(env, DomainQueries(college), ev0), LAMBDA searched :
        IF ~IsNone(searched.dom)
        THEN [dom |-> searched.dom, src |-> "search", ev |-> searched.ev]
        ELSE
        With(ProbeFirstLive(env, GuessCandidates(college), searched.ev), LAMBDA guessed :
        IF ~IsNone(guessed.dom)
        THEN [dom |-> guessed.dom, src |-> "guess", ev |-> guessed.ev]
        ELSE [dom |-> None, src |-> "none", ev |-> guessed.ev]))

\* get_root_domain(college): dom is None when line 392 raises RuntimeError;
\* src names the strategy that produced the domain
GetRootDomain(env, college) ==
    LET key == Lower(Strip(college))
        known == key \in DOMAIN KnownDomains
        ev0 == IF known THEN <<Ev("probe", KnownDomains[key])>> ELSE <<>>
    IN  \* lines 306-313
        IF known /\ DomainLive(env, KnownDomains[key])
        THEN [dom |-> Some(KnownDomains[key]), src |-> "known", ev |-> ev0]
        ELSE
        \* lines 315-328
        With(SearchDomain(env, DomainQueries(college), ev0), LAMBDA searched :
        IF ~IsNone(searched.dom)
        THEN [dom |-> searched.dom, src |-> "search", ev |-> searched.ev]
        ELSE
        \* lines 330-363
        With(ProbeFirstLive(env, GuessCandidates(college), searched.ev), LAMBDA guessed :
        IF ~IsNone(guessed.dom)
        THEN [dom |-> guessed.dom, src |-> "guess", ev |-> guessed.ev]
        \* lines 370-392
        ELSE IF ~IsNone(LLMDomain(env, college, guessed.ev).dom)
        THEN [dom |-> LLMDomain(env, college, guessed.ev).dom, src |-> "llm",
              ev |-> LLMDomain(env, college, guessed.ev).ev]
        ELSE [dom |-> None, src |-> "none", ev |-> LLMDomain(env, college, guessed.ev).ev]))

(***************************************************************************)
(* Parsed documents (BeautifulSoup)                                        *)
(*                                                                         *)
(* A document is the sequence of its nodes in document order, which is the *)
(* order of Tag.next_elements; a node names its parent by index (0: the    *)
(* document itself).  A text node has tag "#text".                         *)
(***************************************************************************)
TextNode(parent, str) ==
    [tag |-> "#text", parent |-> parent, text |-> str,
     hasHref |-> FALSE, href |-> "", cls |-> {}]
Elem(tag, parent) ==
    [tag |-> tag, parent |-> parent, text |-> "",
     hasHref |-> FALSE, href |-> "", cls |-> {}]
Anchor(parent, href) ==
    [tag |-> "a", parent |-> parent, text |-> "",
     hasHref |-> TRUE, href |-> href, cls |-> {}]
DivOf(parent, cls) ==
    [tag |-> "div", parent |-> parent, text |-> "",
     hasHref |-> FALSE, href |-> "", cls |-> cls]

\* dict helpers
EmptyDict == [x \in {} |-> ""]
DictPut(d, k, v) == [x \in DOMAIN d \cup {k} |-> IF x = k THEN v ELSE d[x]]
DictGet(d, k, default) == IF k \in DOMAIN d THEN d[k] ELSE default

RECURSIVE IsAncestor(_, _, _)
\* node a is a proper ancestor of node j
IsAncestor(doc, a, j) ==
    IF j = 0 \/ doc[j].parent = 0 THEN FALSE
    ELSE doc[j].parent = a \/ IsAncestor(doc, a, doc[j].parent)

RECURSIVE StringsUnder(_, _, _)
\* Tag._all_strings(strip=True): the stripped, non-empty strings below node i,
\* read from node j on
StringsUnder(doc, i, j) ==
    IF j > Len(doc) \/ ~IsAncestor(doc, i, j) THEN <<>>
    ELSE (IF doc[j].tag = "#text" /\ Strip(doc[j].text) # ""
          THEN <<Strip(doc[j].text)>> ELSE <<>>) \o StringsUnder(doc, i, j + 1)

\* tag.get_text(" ", strip=True)
GetText(doc, i) == JoinWith(StringsUnder(doc, i, i + 1), " ")

IsAnchorHref(n) == n.tag = "a" /\ n.hasHref

RECURSIVE FindParentAnchor(_, _)
\* h.find_parent('a', href=True): the nearest such ancestor, 0 if none
FindParentAnchor(doc, i) ==
    IF doc[i].parent = 0 THEN 0
    ELSE IF IsAnchorHref(doc[doc[i].parent]) THEN doc[i].parent
         ELSE FindParentAnchor(doc, doc[i].parent)

RECURSIVE FindParentRow(_, _)
\* h.find_parent(div with class 'views-row'): the nearest such ancestor
FindParentRow(doc, i) ==
    IF doc[i].parent = 0 THEN 0
    ELSE IF doc[doc[i].parent].tag = "div" /\ "views-row" \in doc[doc[i].parent].cls
         THEN doc[i].parent
         ELSE FindParentRow(doc, doc[i].parent)

\* tag.find('a', href=True): the first such descendant, 0 if none
FindAnchorIn(doc, i) ==
    LET c == {j \in (i + 1)..Len(doc) : IsAncestor(doc, i, j) /\ IsAnchorHref(doc[j])}
    IN  IF c = {} THEN 0 ELSE MinOf(c)

\* tag.find_next('a', href=True)
FindNextAnchor(doc, i) ==
    LET c == {j \in (i + 1)..Len(doc) : IsAnchorHref(doc[j])}
    IN  IF c = {} THEN 0 ELSE MinOf(c)

\* tag.find_next(string=True)
FindNextString(doc, i) ==
    LET c == {j \in (i + 1)..Len(doc) : doc[j].tag = "#text"}
    IN  IF c = {} THEN 0 ELSE MinOf(c)

RECURSIVE FindAllTags(_, _, _)
\* soup.find_all(tags): the indices of the nodes with one of the tags, in order
FindAllTags(doc, tags, j) ==
    IF j > Len(doc) THEN <<>>
    ELSE (IF doc[j].tag \in tags THEN <<j>> ELSE <<>>) \o FindAllTags(doc, tags, j + 1)

\* "mailto" address of an href: href.replace('mailto:', '').strip()
MailtoAddress(href) == Strip(Remove(href, "mailto:"))
\* email.split('@')[0]
LocalPart(email) ==
    IF FindFrom(email, "@", 1) = 0 THEN email
    ELSE SubSeq(email, 1, FindFrom(email, "@", 1) - 1)

(***************************************************************************)
(* HTTP                                                                    *)
(***************************************************************************)
\* SESSION.head(url, allow_redirects=True): ok when the request answers with
\* a status below 400 (an exception and a status >= 400 are handled alike by
\* every caller); final is resp.url, the address after the redirects
HttpHead(env, url) ==
    [ok |-> url \in env.up,
     final |-> IF url \in DOMAIN env.redirect THEN env.redirect[url] ELSE url]

\* fetch(url) and requests.get(url) + raise_for_status(): the parsed page, ok
\* false when the request raises
HttpGet(env, url) ==
    IF url \in DOMAIN env.pages THEN [ok |-> TRUE, doc |-> env.pages[url]]
    ELSE [ok |-> FALSE, doc |-> <<>>]

(***************************************************************************)
(* JSON values of the request body                                         *)
(***************************************************************************)
JStr(str) == [t |-> "str", s |-> str]
JNum(str) == [t |-> "num", s |-> str]
JAbsent == [t |-> "absent", s |-> ""]
\* bool(v)
Truthy(v) == (v.t = "str" /\ v.s # "") \/ (v.t = "num" /\ v.s # "0")
\* v or w
OrElse(v, w) == IF Truthy(v) THEN v ELSE w
\* f"{v}"
Fmt(v) == v.s

(***************************************************************************)
(* The LLM-suggestion cache and _gemini_suggest_research_url               *)
(***************************************************************************)
GEMINI_CACHE_TTL == 21600

\* re.search(r"https?://[\w./\-_%]+", text): group(0) of the leftmost match
UrlRunSet == WordSet \cup {".", "/", "-", "%"}
UrlSearchAt(text, i) ==
    LET n == IF Sub(text, i, i + 7) = "https://" THEN 8
             ELSE IF Sub(text, i, i + 6) = "http://" THEN 7 ELSE 0
        e == RunEnd(text, i + n, UrlRunSet)
    IN  IF n > 0 /\ e >= i + n THEN Some(SubSeq(text, i, e)) ELSE None
UrlSearch(text) ==
    LET Leftmost(starts) == IF starts = {} THEN None ELSE UrlSearchAt(text, MinOf(starts))
    IN  Leftmost({i \in 1..Len(text) : Ch(text, i) = "h" /\ ~IsNone(UrlSearchAt(text, i))})

CacheKey(college, major) == <<Lower(Strip(college)), Lower(Strip(Fmt(major)))>>

\* _gemini_suggest_research_url without the check of the API key at lines 100-102
GeminiSuggest_IgnoreKey(env, now, college, major, root_domain) ==
    LET asked == <<Ev("llm_suggest", college \o "|" \o Fmt(major))>>
        Answer(url, puts) == [url |-> url, raised |-> "", ev |-> asked, puts |-> puts]
        \* lines 145-148 and 151-155: major.strip() and the write to the cache
        Cached(url) ==
            IF major.t = "str"
            THEN Answer(url, <<[key |-> CacheKey(college, major), url |-> url, ts |-> now]>>)
            ELSE [url |-> None, raised |-> "AttributeError", ev |-> asked, puts |-> <<>>]
    IN  IF ~env.gemini_enabled
        THEN [url |-> None, raised |-> "", ev |-> <<>>, puts |-> <<>>]
        ELSE IF ~env.gemini_suggest.ok THEN Cached(None)
        ELSE
        With(UrlSearch(Strip(env.gemini_suggest.text)), LAMBDA m :
        IF IsNone(m) THEN Answer(None, <<>>)
        ELSE IF root_domain # "" /\ ~Contains(Val(m), root_domain) THEN Answer(None, <<>>)
        ELSE IF \E token \in {"research", "labs", "groups"} : Contains(Lower(Val(m)), token)
             THEN Cached(m)
        ELSE Cached(None))

\* _gemini_suggest_research_url(college, major, root_domain) at time `now`.
\* url is the value returned (None also when the call raises); raised names
\* the exception that leaves the function; puts are the writes to
\* _GEMINI_CACHE, in order.  major.strip() raises AttributeError when major is
\* not a string: at line 145 inside the try, and again at line 153 outside it.
GeminiSuggest(env, now, college, major, root_domain) ==
    LET asked == <<Ev("llm_suggest", college \o "|" \o Fmt(major))>>
        Answer(url, puts) == [url |-> url, raised |-> "", ev |-> asked, puts |-> puts]
        \* lines 145-148 and 151-155: major.strip() and the write to the cache
        Cached(url) ==
            IF major.t = "str"
            THEN Answer(url, <<[key |-> CacheKey(college, major), url |-> url, ts |-> now]>>)
            ELSE [url |-> None, raised |-> "AttributeError", ev |-> asked, puts |-> <<>>]
    IN  IF ~env.gemini_enabled \/ ~env.gemini_key
        THEN [url |-> None, raised |-> "", ev |-> <<>>, puts |-> <<>>]
        ELSE IF ~env.gemini_suggest.ok THEN Cached(None)
        ELSE
        With(UrlSearch(Strip(env.gemini_suggest.text)), LAMBDA m :
        IF IsNone(m) THEN Answer(None, <<>>)
        ELSE IF root_domain # "" /\ ~Contains(Val(m), root_domain) THEN Answer(None, <<>>)
        ELSE IF \E token \in {"research", "labs", "groups"} : Contains(Lower(Val(m)), token)
             THEN Cached(m)
        ELSE Cached(None))

(***************************************************************************)
(* Step 2: get_department_url                                              *)
(***************************************************************************)
\* lines 402-411 and 529-538
DeptPatterns(root) ==
    << "https://www.cs." \o root,
       "https://cs." \o root,
       "https://www." \o root \o "/cs",
       "https://" \o root \o "/cs",
       "https://scs." \o root,
       "https://www.scs." \o root,
       "https://www." \o root \o "/computer-science",
       "https://" \o root \o "/computer-science" >>

RECURSIVE ProbePatterns_PatternItself(_, _, _)
\* the pattern loop returning the pattern probed instead of resp.url
ProbePatterns_PatternItself(env, patterns, ev) ==
    IF patterns = <<>> THEN [url |-> None, ev |-> ev]
    ELSE IF HttpHead(env, patterns[1]).ok
         THEN [url |-> Some(patterns[1]), ev |-> Append(ev, Ev("head", patterns[1]))]
         ELSE ProbePatterns_PatternItself(env, Tail(patterns),
                                          Append(ev, Ev("head", patterns[1])))

RECURSIVE ProbePatterns(_, _, _)
\* lines 413-424 and 541-552: the first pattern whose HEAD answers
ProbePatterns(env, patterns, ev) ==
    IF patterns = <<>> THEN [url |-> None, ev |-> ev]
    ELSE IF HttpHead(env, patterns[1]).ok
         THEN [url |-> Some(HttpHead(env, patterns[1]).final),
               ev |-> Append(ev, Ev("head", patterns[1]))]
         ELSE ProbePatterns(env, Tail(patterns), Append(ev, Ev("head", patterns[1])))

\* lines 428-433
DeptQueries(root, major) ==
    << "\"" \o Fmt(major) \o "\" department " \o root,
       "\"" \o Fmt(major) \o "\" school " \o root,
       "computer science " \o root,
       "cs department " \o root >>

RECURSIVE ScanDeptHits(_, _)
\* lines 440-448: the first hit naming the domain whose path has a computing token
ScanDeptHits(hits, root) ==
    IF hits = <<>> THEN None
    ELSE IF ~Contains(hits[1], root) THEN ScanDeptHits(Tail(hits), root)
    ELSE IF UrlParseRaises(hits[1]) THEN None
    ELSE With(Lower(UrlPath(hits[1])), LAMBDA path :
         IF Contains(path, "cs") \/ Contains(path, "computer")
                \/ Contains(path, "computing")
         THEN Some(hits[1])
         ELSE ScanDeptHits(Tail(hits), root))

RECURSIVE SearchDept(_, _, _, _)
\* lines 435-451
SearchDept(env, queries, root, ev) ==
    IF queries = <<>> THEN [url |-> None, ev |-> ev]
    ELSE With(ScanDeptHits(SafeTextSearch(env, queries[1], SearchMax), root), LAMBDA hit :
         IF ~IsNone(hit) THEN [url |-> hit, ev |-> Append(ev, Ev("search", queries[1]))]
         ELSE SearchDept(env, Tail(queries), root, Append(ev, Ev("search", queries[1]))))

\* get_department_url(root_domain, major): url is None when line 453 raises
GetDepartmentUrl(env, root, major) ==
    LET probed == ProbePatterns(env, DeptPatterns(root), <<>>)
    IN  IF ~IsNone(probed.url) THEN probed
        ELSE SearchDept(env, DeptQueries(root, major), root, probed.ev)

(***************************************************************************)
(* Steps 3 and 4: score_links, is_research_page                            *)
(***************************************************************************)
TopN == 5
MaxDepth == 3

\* _RESEARCH_WORDS.search(s): research|labs?|groups?, ignoring case
ResearchWords(str) ==
    \E w \in {"research", "lab", "group"} : Contains(Lower(str), w)

\* len([seg for seg in path.split("/") if seg])
PathDepth(path) == Len(SelectSeq(SplitOn(path, {"/"}, ""), LAMBDA seg : seg # ""))

\* the anchors with an href, in document order
AnchorsOf(doc) == SelectSeq([i \in 1..Len(doc) |-> i], LAMBDA i : IsAnchorHref(doc[i]))

RECURSIVE ScoreAnchors_LastAnchorOnly(_, _, _, _)
\* the scoring loop overwriting, not accumulating, the score of an address
ScoreAnchors_LastAnchorOnly(doc, base_url, as, acc) ==
    LET href == Strip(doc[as[1]].href)
    IN  IF as = <<>> \/ acc.raised THEN acc
        ELSE IF UrlParseRaises(href) THEN [acc EXCEPT !.raised = TRUE]
        ELSE
        With(UrlJoin(base_url, href), LAMBDA full :
        With(UrlPath(full), LAMBDA path :
        ScoreAnchors_LastAnchorOnly(doc, base_url, Tail(as),
            IF NetLoc(full) # NetLoc(base_url) \/ PathDepth(path) > MaxDepth THEN acc
            ELSE [acc EXCEPT
                    !.order = IF InSeq(full, @) THEN @ ELSE Append(@, full),
                    !.scores = DictPut(@, full,
                        (IF ResearchWords(path) THEN 2 ELSE 0)
                            + (IF ResearchWords(GetText(doc, as[1])) THEN 1 ELSE 0))])))

RECURSIVE ScoreAnchors(_, _, _, _)
\* lines 464-478: acc.order lists the scored addresses in insertion order
ScoreAnchors(doc, base_url, as, acc) ==
    LET href == Strip(doc[as[1]].href)
    IN  IF as = <<>> \/ acc.raised THEN acc
        ELSE IF UrlParseRaises(href) THEN [acc EXCEPT !.raised = TRUE]
        ELSE
        With(UrlJoin(base_url, href), LAMBDA full :
        With(UrlPath(full), LAMBDA path :
        ScoreAnchors(doc, base_url, Tail(as),
            IF NetLoc(full) # NetLoc(base_url) \/ PathDepth(path) > MaxDepth THEN acc
            ELSE [acc EXCEPT
                    !.order = IF InSeq(full, @) THEN @ ELSE Append(@, full),
                    !.scores = DictPut(@, full,
                        DictGet(@, full, 0)
                            + (IF ResearchWords(path) THEN 2 ELSE 0)
                            + (IF ResearchWords(GetText(doc, as[1])) THEN 1 ELSE 0))])))

RECURSIVE RankDesc(_, _)
\* sorted(..., key=score, reverse=True): stable, so ties keep insertion order
RankDesc(order, scores) ==
    IF order = <<>> THEN <<>>
    ELSE LET best == MinOf({i \in 1..Len(order) :
                              \A j \in 1..Len(order) : scores[order[j]] <= scores[order[i]]})
         IN  <<order[best]>>
                \o RankDesc(SubSeq(order, 1, best - 1) \o SubSeq(order, best + 1, Len(order)),
                            scores)

\* score_links(base_url, html): raised when urljoin raises ValueError
ScoreLinks(base_url, doc) ==
    With(ScoreAnchors(doc, base_url, AnchorsOf(doc),
                      [raised |-> FALSE, order |-> <<>>, scores |-> EmptyDict]),
         LAMBDA acc :
         [raised |-> acc.raised,
          urls |-> IF acc.raised THEN <<>> ELSE Take(RankDesc(acc.order, acc.scores), TopN)])

\* the text that follows the opening tag of node i up to the next "<"
LeadingText(doc, i) ==
    IF i < Len(doc) /\ doc[i + 1].tag = "#text" /\ doc[i + 1].parent = i
    THEN doc[i + 1].text ELSE ""

\* is_research_page(url): the page is fetched and some h1-h4 opening tag is
\* followed, before any other tag, by text holding research/lab/group
IsResearchPage(env, url) ==
    LET page == HttpGet(env, url)
    IN  /\ page.ok
        /\ \E i \in 1..Len(page.doc) :
              /\ page.doc[i].tag \in {"h1", "h2", "h3", "h4"}
              /\ ResearchWords(LeadingText(page.doc, i))

RECURSIVE FirstResearchPage(_, _, _)
\* lines 575-582 and 586-592: the first candidate that passes the listing check
FirstResearchPage(env, cands, ev) ==
    IF cands = <<>> THEN [url |-> None, ev |-> ev]
    ELSE IF IsResearchPage(env, cands[1])
         THEN [url |-> Some(cands[1]), ev |-> Append(ev, Ev("get", cands[1]))]
         ELSE FirstResearchPage(env, Tail(cands), Append(ev, Ev("get", cands[1])))

(***************************************************************************)
(* find_research_url                                                       *)
(***************************************************************************)
\* lines 564-573
ResearchPatterns(dept_url) ==
    << dept_url \o "/research", dept_url \o "/research/",
       dept_url \o "/labs", dept_url \o "/labs/",
       dept_url \o "/groups", dept_url \o "/groups/",
       dept_url \o "/groups-labs", dept_url \o "/groups-labs/" >>

\* the two ways find_research_url ends: err is the class of the exception
\* that leaves it and msg is its str()
Returned(url, ev, puts) ==
    [kind |-> "url", url |-> url, err |-> "", msg |-> "", ev |-> ev, puts |-> puts]
Raised(err, msg, ev, puts) ==
    [kind |-> "raise", url |-> "", err |-> err, msg |-> msg, ev |-> ev, puts |-> puts]

\* find_research_url falling back to the first fixed candidate, not the home page
FromDepartment_FirstSuffix(env, root, major, dept, puts) ==
    LET dept_url == Val(dept.url)
        home == HttpGet(env, dept_url)
        ev1 == Append(dept.ev, Ev("get", dept_url))
        fixed == FirstResearchPage(env, ResearchPatterns(dept_url), ev1)
    IN  IF IsNone(dept.url)
        THEN Raised("RuntimeError",
                    "Department page not found for " \o root \o " " \o Fmt(major),
                    dept.ev, puts)
        ELSE IF ~home.ok THEN Raised("RequestException", "GET " \o dept_url, ev1, puts)
        ELSE IF ~IsNone(fixed.url) THEN Returned(Val(fixed.url), fixed.ev, puts)
        ELSE
        With(ScoreLinks(dept_url, home.doc), LAMBDA scored :
        IF scored.raised THEN Raised("ValueError", "Invalid IPv6 URL", fixed.ev, puts)
        ELSE
        With(FirstResearchPage(env, scored.urls, fixed.ev), LAMBDA ranked :
        IF ~IsNone(ranked.url) THEN Returned(Val(ranked.url), ranked.ev, puts)
        ELSE Returned(ResearchPatterns(dept_url)[1], ranked.ev, puts)))

\* find_research_url with the first candidate fetch left outside its try block
FromDepartment_UnguardedProbe(env, root, major, dept, puts) ==
    LET dept_url == Val(dept.url)
        home == HttpGet(env, dept_url)
        ev1 == Append(dept.ev, Ev("get", dept_url))
        first == ResearchPatterns(dept_url)[1]
        fixed == FirstResearchPage(env, ResearchPatterns(dept_url), ev1)
    IN  IF IsNone(dept.url)
        THEN Raised("RuntimeError",
                    "Department page not found for " \o root \o " " \o Fmt(major),
                    dept.ev, puts)
        ELSE IF ~home.ok THEN Raised("RequestException", "GET " \o dept_url, ev1, puts)
        ELSE IF ~HttpGet(env, first).ok
        THEN Raised("RequestException", "GET " \o first, Append(ev1, Ev("get", first)), puts)
        ELSE IF ~IsNone(fixed.url) THEN Returned(Val(fixed.url), fixed.ev, puts)
        ELSE
        With(ScoreLinks(dept_url, home.doc), LAMBDA scored :
        IF scored.raised THEN Raised("ValueError", "Invalid IPv6 URL", fixed.ev, puts)
        ELSE
        With(FirstResearchPage(env, scored.urls, fixed.ev), LAMBDA ranked :
        IF ~IsNone(ranked.url) THEN Returned(Val(ranked.url), ranked.ev, puts)
        ELSE Returned(dept_url, ranked.ev, puts)))

\* lines 554-596: dept.url is the department page of steps 3 and 4, None when
\* neither step found one, and dept.ev the requests these steps issued
FromDepartment(env, root, major, dept, puts) ==
    LET dept_url == Val(dept.url)
        home == HttpGet(env, dept_url)
        ev1 == Append(dept.ev, Ev("get", dept_url))
        fixed == FirstResearchPage(env, ResearchPatterns(dept_url), ev1)
    IN  \* lines 554-557
        IF IsNone(dept.url)
        THEN Raised("RuntimeError",
                    "Department page not found for " \o root \o " " \o Fmt(major),
                    dept.ev, puts)
        \* line 561
        ELSE IF ~home.ok THEN Raised("RequestException", "GET " \o dept_url, ev1, puts)
        \* lines 563-582
        ELSE IF ~IsNone(fixed.url) THEN Returned(Val(fixed.url), fixed.ev, puts)
        ELSE
        \* lines 584-592
        With(ScoreLinks(dept_url, home.doc), LAMBDA scored :
        IF scored.raised THEN Raised("ValueError", "Invalid IPv6 URL", fixed.ev, puts)
        ELSE
        With(FirstResearchPage(env, scored.urls, fixed.ev), LAMBDA ranked :
        IF ~IsNone(ranked.url) THEN Returned(Val(ranked.url), ranked.ev, puts)
        \* lines 594-596
        ELSE Returned(dept_url, ranked.ev, puts)))

\* lines 527-596, once the domain is resolved and the LLM step gave nothing
FromRoot(env, root, major, ev, puts) ==
    LET probed == ProbePatterns(env, DeptPatterns(root), ev)
    IN  FromDepartment(env, root, major,
            \* lines 527-552
            IF ~IsNone(probed.url) THEN probed
            \* line 555
            ELSE With(GetDepartmentUrl(env, root, major), LAMBDA located :
                      [url |-> located.url, ev |-> probed.ev \o located.ev]),
            puts)

\* find_research_url returning the suggested address, not the one the probe
\* was redirected to
FromSuggestion_BeforeRedirect(env, root, major, ev, gemini) ==
    LET ev1 == ev \o gemini.ev
        head == HttpHead(env, Val(gemini.url))
        ev2 == Append(ev1, Ev("head", Val(gemini.url)))
    IN  IF gemini.raised # ""
        THEN Raised(gemini.raised, "object has no attribute 'strip'", ev1, gemini.puts)
        ELSE IF ~IsNone(gemini.url) /\ head.ok THEN Returned(Val(gemini.url), ev2, gemini.puts)
        ELSE FromRoot(env, root, major, IF IsNone(gemini.url) THEN ev1 ELSE ev2,
                      gemini.puts)

\* lines 517-596, given the answer of _gemini_suggest_research_url
FromSuggestion(env, root, major, ev, gemini) ==
    LET ev1 == ev \o gemini.ev
        head == HttpHead(env, Val(gemini.url))
        ev2 == Append(ev1, Ev("head", Val(gemini.url)))
    IN  IF gemini.raised # ""
        THEN Raised(gemini.raised, "object has no attribute 'strip'", ev1, gemini.puts)
        \* lines 517-525
        ELSE IF ~IsNone(gemini.url) /\ head.ok THEN Returned(head.final, ev2, gemini.puts)
        \* lines 527-596
        ELSE FromRoot(env, root, major, IF IsNone(gemini.url) THEN ev1 ELSE ev2,
                      gemini.puts)

\* lines 512-596, given the answer of get_root_domain
FromDomain(env, now, college, major, resolved) ==
    IF IsNone(resolved.dom)
    THEN Raised("RuntimeError", "Could not resolve root domain for " \o college,
                resolved.ev, <<>>)
    ELSE FromSuggestion(env, Val(resolved.dom), major, resolved.ev,
                        GeminiSuggest(env, now, college, major, Val(resolved.dom)))

\* find_research_url serving a fresh cache entry without asking the LLM or
\* probing the address again
FindResearchUrl_TrustCache(env, now, college, major) ==
    LET key == CacheKey(college, major)
        fresh == /\ key \in DOMAIN cache
                 /\ now - cache[key].ts < GEMINI_CACHE_TTL
                 /\ ~IsNone(cache[key].url)
    IN  With(GetRootDomain(env, college), LAMBDA resolved :
        IF ~IsNone(resolved.dom) /\ fresh
        THEN Returned(Val(cache[key].url), resolved.ev, <<>>)
        ELSE FromDomain(env, now, college, major, resolved))

\* find_research_url(college, major) at time `now`: the address returned or
\* the exception raised, the outside calls issued and the cache writes made
FindResearchUrl(env, now, college, major) ==
    FromDomain(env, now, college, major, GetRootDomain(env, college))

(***************************************************************************)
(* _extract_lab_areas                                                      *)
(***************************************************************************)
MinTitleLen == 4
MinBlockLen == 40
MaxDescChars == 400
SnippetLen == 150
MaxBlocks == 3
MaxLabs == 40

GenericHeadings ==
    {"research", "overview", "contact", "news", "groups & labs", "main menu",
     "mini menu", "support us", "home", "slideshow"}

HeadingTags == {"h2", "h3", "h4"}
BlockTags == {"p", "div", "span", "li"}

\* the generic-heading test without the lower-casing of line 630
TitleAccepted_CaseSensitive(title) ==
    /\ title # "" /\ Len(title) >= MinTitleLen
    /\ Strip(title) \notin GenericHeadings

\* lines 623-631: the heading is a candidate lab title
TitleAccepted(title) ==
    /\ title # "" /\ Len(title) >= MinTitleLen
    /\ Strip(Lower(title)) \notin GenericHeadings

\* lines 637-658: the lab link found around the heading
HeadingLink(doc, url, h) ==
    LET parent_anchor == FindParentAnchor(doc, h)
        link_tag == FindAnchorIn(doc, h)
        nxt == FindNextAnchor(doc, h)
    IN  \* lines 640-648
        With(IF parent_anchor # 0 THEN Some(UrlJoin(url, doc[parent_anchor].href))
             ELSE IF link_tag # 0 THEN Some(UrlJoin(url, doc[link_tag].href))
             ELSE None, LAMBDA first :
        \* lines 650-654
        With(IF (IsNone(first) \/ Val(first) = "") /\ nxt # 0
             THEN Some(UrlJoin(url, doc[nxt].href)) ELSE first, LAMBDA lab_url :
        \* lines 656-658
        IF ~IsNone(lab_url)
            /\ Val(lab_url) # ""
            /\ (EndsWith(Val(lab_url), "#")
                    \/ StartsWith(Lower(Val(lab_url)), "javascript"))
        THEN None ELSE lab_url))

\* lines 671-676 and 703-709: a mailto anchor gives a name and its address
AddMailto(st, doc, a) ==
    LET email == MailtoAddress(doc[a].href)
        text == GetText(doc, a)
    IN  With(IF text # "" THEN text ELSE LocalPart(email), LAMBDA name :
        [st EXCEPT !.professors = IF InSeq(name, @) THEN @ ELSE Append(@, name),
                   !.professor_emails = DictPut(@, name, email)])

RECURSIVE RowAnchors(_, _, _, _)
\* lines 667-683: every anchor of the row container, from node j on
RowAnchors(doc, row, j, st) ==
    IF j > Len(doc) \/ ~IsAncestor(doc, row, j) THEN st
    ELSE IF doc[j].tag # "a" THEN RowAnchors(doc, row, j + 1, st)
    ELSE IF StartsWith(doc[j].href, "mailto:")
         THEN RowAnchors(doc, row, j + 1, AddMailto(st, doc, j))
    ELSE With(ProfNameSearch(GetText(doc, j)), LAMBDA mname2 :
         RowAnchors(doc, row, j + 1,
                    IF ~IsNone(mname2) /\ ~InSeq(Strip(Val(mname2)), st.professors)
                    THEN [st EXCEPT !.professors = Append(@, Strip(Val(mname2)))]
                    ELSE st))

\* lines 693-716: a p/div/span/li element met by the walk
WalkBlock(doc, url, j, st) ==
    LET txt == GetText(doc, j)
        inner_link == FindAnchorIn(doc, j)
        link_href == doc[inner_link].href
        st1 == [st EXCEPT !.description_parts = Append(@, txt)]
    IN  IF ~(txt # "" /\ Len(txt) > MinBlockLen) THEN st
        ELSE
        \* lines 698-709
        With(IF (IsNone(st1.lab_url) \/ Val(st1.lab_url) = "") /\ inner_link # 0
                    /\ link_href # "" /\ ~StartsWith(link_href, "#")
                    /\ ~StartsWith(Lower(link_href), "javascript")
             THEN IF StartsWith(link_href, "mailto:")
                  THEN AddMailto(st1, doc, inner_link)
                  ELSE [st1 EXCEPT !.lab_url = Some(UrlJoin(url, link_href))]
             ELSE st1, LAMBDA st2 :
        \* lines 711-716
        IF st2.professors = <<>> /\ ~IsNone(FacultySearch(txt))
        THEN [st2 EXCEPT !.professors = SplitNames(Val(FacultySearch(txt)))]
        ELSE st2)

RECURSIVE Walk(_, _, _, _)
\* lines 685-718: for el in h.next_elements, from node j on
Walk(doc, url, j, st) ==
    IF j > Len(doc) THEN st
    ELSE IF doc[j].tag = "#text" THEN Walk(doc, url, j + 1, st)
    ELSE IF doc[j].tag \in HeadingTags THEN st
    ELSE With(IF doc[j].tag \in BlockTags THEN WalkBlock(doc, url, j, st) ELSE st,
              LAMBDA st2 :
              IF Len(JoinWith(st2.description_parts, " ")) > MaxDescChars THEN st2
              ELSE Walk(doc, url, j + 1, st2))

RECURSIVE Dedupe(_, _)
\* lines 729-735 and 746-752: keep the first occurrence of every key
Dedupe(items, seen) ==
    IF items = <<>> THEN <<>>
    ELSE IF items[1] \in seen THEN Dedupe(Tail(items), seen)
         ELSE <<items[1]>> \o Dedupe(Tail(items), seen \cup {items[1]})

\* the fallback reading the first text after the heading element, not the
\* heading's own text
WithFallback_FollowingText(doc, h, parts) ==
    LET after == {j \in (h + 1)..Len(doc) :
                    doc[j].tag = "#text" /\ ~IsAncestor(doc, h, j)}
    IN  IF parts = <<>> /\ after # {} /\ doc[MinOf(after)].text # ""
        THEN <<Take(Strip(doc[MinOf(after)].text), SnippetLen)>>
        ELSE parts

\* lines 720-727: the description parts after the fallback
WithFallback(doc, h, parts) ==
    LET sib_text == FindNextString(doc, h)
    IN  IF parts = <<>> /\ sib_text # 0 /\ doc[sib_text].text # ""
        THEN <<Take(Strip(doc[sib_text].text), SnippetLen)>>
        ELSE parts

\* the body of the loop of lines 623-744 for heading h: the (zero or one) lab
\* records it appends
HeadingLabs(doc, url, h) ==
    LET title == GetText(doc, h)
        m == FacultySearch(title)
        row_container == FindParentRow(doc, h)
        \* lines 633-664
        st0 == [description_parts |-> <<>>,
                professors |-> IF IsNone(m) THEN <<>> ELSE SplitNames(Val(m)),
                professor_emails |-> EmptyDict,
                lab_url |-> HeadingLink(doc, url, h)]
    IN  IF ~TitleAccepted(title) THEN <<>>
        ELSE
        \* lines 666-718
        With(Walk(doc, url, h + 1,
                  IF row_container # 0
                  THEN RowAnchors(doc, row_container, row_container + 1, st0)
                  ELSE st0), LAMBDA st2 :
        \* lines 720-727
        With(WithFallback(doc, h, st2.description_parts), LAMBDA parts :
        \* lines 729-744
        IF parts = <<>> THEN <<>>
        ELSE << [name |-> title,
                 description |-> JoinWith(Take(Dedupe(parts, {}), MaxBlocks), "\n"),
                 professors |-> st2.professors,
                 professor_emails |-> st2.professor_emails,
                 lab_url |-> st2.lab_url] >>))

RECURSIVE LabsOf(_, _, _)
\* the list `labs` after the loop over the headings hs
LabsOf(doc, url, hs) ==
    IF hs = <<>> THEN <<>>
    ELSE HeadingLabs(doc, url, hs[1]) \o LabsOf(doc, url, Tail(hs))

RECURSIVE DedupeLabs(_, _)
\* lines 746-752
DedupeLabs(labs, seen) ==
    IF labs = <<>> THEN <<>>
    ELSE IF labs[1].name \in seen THEN DedupeLabs(Tail(labs), seen)
         ELSE <<labs[1]>> \o DedupeLabs(Tail(labs), seen \cup {labs[1].name})

\* the cap of line 754 applied before the deduplication of lines 746-752
ExtractLabAreas_CapFirst(url, page) ==
    IF ~page.ok THEN <<>>
    ELSE DedupeLabs(Take(LabsOf(page.doc, url,
                                FindAllTags(page.doc, HeadingTags, 1)), MaxLabs), {})

\* _extract_lab_areas(url), given the answer of the GET: page.ok is false when
\* the request raised or answered an error status
ExtractLabAreas(url, page) ==
    IF ~page.ok THEN <<>>
    ELSE Take(DedupeLabs(LabsOf(page.doc, url,
                                FindAllTags(page.doc, HeadingTags, 1)), {}),
              MaxLabs)

(***************************************************************************)
(* Personnel enrichment: _scrape_personnel_section                         *)
(***************************************************************************)
MaxRoleLen == 60

RECURSIVE LStripChars(_, _)
LStripChars(s, cs) == IF s # "" /\ Ch(s, 1) \in cs THEN LStripChars(Tail(s), cs) ELSE s
RECURSIVE RStripChars(_, _)
RStripChars(s, cs) ==
    IF s # "" /\ Ch(s, Len(s)) \in cs THEN RStripChars(SubSeq(s, 1, Len(s) - 1), cs) ELSE s
\* str.strip(chars)
StripChars(s, cs) == RStripChars(LStripChars(s, cs), cs)

PersonnelWords == {"personnel", "people", "members", "faculty"}

\* line 828: the first h2-h4 heading whose text names a personnel section
PersonnelHeading(doc) ==
    LET c == {i \in 1..Len(doc) :
                /\ doc[i].tag \in HeadingTags
                /\ \E w \in PersonnelWords : Contains(Lower(GetText(doc, i)), w)}
    IN  IF c = {} THEN 0 ELSE MinOf(c)

\* lines 844-860: an anchor of the section.  The address of a mailto anchor is
\* read into email_val and then dropped: nothing stores it.
ScrapeAnchor(doc, lab_url, j, st) ==
    LET anchor_text == GetText(doc, j)
        href == doc[j].href
    IN  \* lines 845-852
        With(IF IsNone(ProfNameSearch(anchor_text)) THEN anchor_text
             ELSE Strip(Val(ProfNameSearch(anchor_text))), LAMBDA name_val :
        \* lines 853-855
        With(IF name_val # "" /\ ~InSeq(name_val, st.names)
             THEN [st EXCEPT !.names = Append(@, name_val)] ELSE st, LAMBDA st1 :
        \* lines 856-860
        IF name_val # "" /\ href # "" /\ ~StartsWith(href, "mailto:")
            /\ StartsWith(href, "/")
        THEN [st1 EXCEPT !.profile_links = DictPut(@, name_val, UrlJoin(lab_url, href))]
        ELSE st1))

\* lines 863-885: a li/p/div/span element of the section
ScrapeBlock(doc, lab_url, j, st) ==
    LET txt == GetText(doc, j)
        link_tag == FindAnchorIn(doc, j)
    IN  \* lines 863-869
        With(EmailSearch(txt), LAMBDA m_mail :
        With(ProfNameSearch(txt), LAMBDA m_name :
        LET email_val == IF IsNone(m_mail) THEN "" ELSE Val(m_mail)
            name_val == Strip(Val(m_name))
            \* lines 870-873
            st1 == IF ~InSeq(name_val, st.names)
                   THEN [st EXCEPT !.names = Append(@, name_val)] ELSE st
            \* lines 874-880
            rem == StripChars(Remove(Remove(txt, name_val), email_val),
                              {" ", ",", ";", ":", "-"})
            st2 == IF email_val # ""
                   THEN [st1 EXCEPT
                            !.emails = DictPut(@, name_val, email_val),
                            !.roles = IF rem # "" /\ Len(rem) < MaxRoleLen
                                      THEN DictPut(@, name_val, rem) ELSE @]
                   ELSE st1
        IN  IF txt = "" \/ IsNone(m_name) THEN st
            \* lines 881-885
            ELSE IF email_val = "" /\ link_tag # 0
                        /\ ~StartsWith(doc[link_tag].href, "mailto:")
                 THEN [st1 EXCEPT !.profile_links =
                            DictPut(@, name_val, UrlJoin(lab_url, doc[link_tag].href))]
                 ELSE st2))

RECURSIVE ScrapeWalk(_, _, _, _)
\* lines 837-885: for el in heading.next_elements, from node j on
ScrapeWalk(doc, lab_url, j, st) ==
    IF j > Len(doc) \/ doc[j].tag \in HeadingTags THEN st
    ELSE IF doc[j].tag = "#text" THEN ScrapeWalk(doc, lab_url, j + 1, st)
    ELSE With(IF doc[j].tag = "a" THEN ScrapeAnchor(doc, lab_url, j, st) ELSE st,
              LAMBDA st1 :
              ScrapeWalk(doc, lab_url, j + 1,
                         IF doc[j].tag \in BlockTags THEN ScrapeBlock(doc, lab_url, j, st1)
                         ELSE st1))

\* what re.search finds in the markup of a page: the attribute values and the
\* texts, in document order
RECURSIVE FirstEmailIn(_, _)
FirstEmailIn(doc, j) ==
    IF j > Len(doc) THEN None
    ELSE With(EmailSearch(doc[j].href), LAMBDA inHref :
         IF ~IsNone(inHref) THEN inHref
         ELSE With(EmailSearch(doc[j].text), LAMBDA inText :
              IF ~IsNone(inText) THEN inText
              ELSE FirstEmailIn(doc, j + 1)))

RECURSIVE FollowProfiles(_, _, _, _)
\* lines 890-902: one fetch per name with a profile link and no address
FollowProfiles(env, names, st, ev) ==
    LET u == st.profile_links[names[1]]
        page == HttpGet(env, u)
    IN  IF names = <<>> THEN [st |-> st, ev |-> ev]
        ELSE IF names[1] \in DOMAIN st.emails \/ names[1] \notin DOMAIN st.profile_links
             THEN FollowProfiles(env, Tail(names), st, ev)
        ELSE With(IF page.ok THEN FirstEmailIn(page.doc, 1) ELSE None, LAMBDA em :
             FollowProfiles(env, Tail(names),
                            IF IsNone(em) THEN st
                            ELSE [st EXCEPT !.emails = DictPut(@, names[1], Val(em))],
                            Append(ev, Ev("get", u))))

NoPeople == [names |-> <<>>, emails |-> EmptyDict, roles |-> EmptyDict]

\* _scrape_personnel_section(lab_url): (names, email_map, role_map) and the
\* requests issued; every exception gives empty results (lines 905-907)
ScrapePersonnelSection(env, lab_url) ==
    LET page == HttpGet(env, lab_url)
        \* line 828
        heading == PersonnelHeading(page.doc)
    IN  IF ~page.ok \/ heading = 0
        THEN [people |-> NoPeople, ev |-> <<Ev("get", lab_url)>>]
        ELSE
        \* lines 837-885
        With(ScrapeWalk(page.doc, lab_url, heading + 1,
                        [names |-> <<>>, emails |-> EmptyDict, roles |-> EmptyDict,
                         profile_links |-> EmptyDict]), LAMBDA st :
        \* lines 887-903
        With(FollowProfiles(env, st.names, st, <<Ev("get", lab_url)>>), LAMBDA followed :
        [people |-> [names |-> followed.st.names, emails |-> followed.st.emails,
                     roles |-> followed.st.roles],
         ev |-> followed.ev]))

(***************************************************************************)
(* Personnel enrichment: _gemini_extract_professors                        *)
(*                                                                         *)
(* An answer of the LLM is [ok, kind, items, lines]: ok false when the     *)
(* request raises; kind "json" when json.loads gives a list, whose dict    *)
(* entries with a "name" key are items ([name, email], as str() gives      *)
(* them); kind "other" when it gives another JSON value; kind "text" when  *)
(* json.loads raises, lines being text.splitlines().                       *)
(***************************************************************************)
\* \b([A-Z][a-z]+(?:\s+[A-Z][a-z]+){1,3})\b anchored at i: the end of the
\* match with the most words (2 to 4) that ends at a word boundary, 0 if none
PlainNameEndAt(s, i) ==
    LET CapWord(j) ==
            IF j <= Len(s) /\ IsUpperCh(Ch(s, j)) /\ RunEnd(s, j + 1, LowerSet) > j
            THEN RunEnd(s, j + 1, LowerSet) ELSE 0
        NextWord(e) ==     \* \s+[A-Z][a-z]+ after position e (0: none)
            IF e = 0 \/ RunEnd(s, e + 1, SpaceSet) <= e THEN 0
            ELSE CapWord(RunEnd(s, e + 1, SpaceSet) + 1)
        Bound(e) == e > 0 /\ (e = Len(s) \/ ~IsWordCh(Ch(s, e + 1)))
        Longest(e2, e3, e4) ==
            IF Bound(e4) THEN e4
            ELSE IF Bound(e3) THEN e3
            ELSE IF Bound(e2) THEN e2
            ELSE 0
        e1 == CapWord(i)
    IN  IF ~(i = 1 \/ ~IsWordCh(Ch(s, i - 1))) \/ e1 = 0 THEN 0
        ELSE Longest(NextWord(e1), NextWord(NextWord(e1)),
                     NextWord(NextWord(NextWord(e1))))

PlainNameSearch(s) ==
    LET Leftmost(starts) ==
            IF starts = {} THEN None
            ELSE Some(SubSeq(s, MinOf(starts), PlainNameEndAt(s, MinOf(starts))))
    IN  Leftmost({i \in 1..Len(s) : IsUpperCh(Ch(s, i)) /\ PlainNameEndAt(s, i) > 0})

RECURSIVE ParsePlain(_, _)
\* _parse_plain (lines 192-214) over the lines of the answer; the bullet
\* characters of the model's answers are "-" and "*"
ParsePlain(lines, acc) ==
    LET line == Strip(LStripChars(Strip(lines[1]), {"-", "*", " "}))
    IN  IF lines = <<>> THEN acc
        ELSE
        \* lines 198-203
        With(IF IsNone(EmailSearch(line)) THEN "" ELSE Val(EmailSearch(line)),
             LAMBDA email_val :
        \* lines 204-208
        With(PlainNameSearch(StripChars(Remove(line, email_val),
                                        {" ", "(", ")", ":", ",", ";", "-"})),
             LAMBDA mname :
        LET name_val == Strip(Val(mname))
            \* lines 209-213
            acc1 == IF name_val # "" /\ ~InSeq(name_val, acc.names)
                    THEN [acc EXCEPT !.names = Append(@, name_val)] ELSE acc
        IN  IF line = "" \/ IsNone(mname) THEN ParsePlain(Tail(lines), acc)
            ELSE ParsePlain(Tail(lines),
                            IF email_val # ""
                            THEN [acc1 EXCEPT !.emails = DictPut(@, name_val, email_val)]
                            ELSE acc1)))

RECURSIVE ParseItems(_, _)
\* lines 221-228 and 260-267
ParseItems(items, acc) ==
    IF items = <<>> THEN acc
    ELSE LET name == Strip(items[1].name)
             email == Strip(items[1].email)
             acc1 == IF name # "" /\ ~InSeq(name, acc.names)
                     THEN [acc EXCEPT !.names = Append(@, name)] ELSE acc
             acc2 == IF name # "" /\ email # ""
                     THEN [acc1 EXCEPT !.emails = DictPut(@, name, email)] ELSE acc1
         IN  ParseItems(Tail(items), acc2)

NoNames == [names |-> <<>>, emails |-> EmptyDict]

\* lines 216-231 and 255-269: the names and addresses read from one answer
ParseAnswer(answer) ==
    IF answer.kind = "json" THEN ParseItems(answer.items, NoNames)
    ELSE IF answer.kind = "text" THEN ParsePlain(answer.lines, NoNames)
    ELSE NoNames

\* _gemini_extract_professors asking again with the page text whatever the
\* first answer held
GeminiExtractProfessors_AlwaysReask(env, lab_url, college) ==
    LET ask1 == <<Ev("llm_professors", lab_url)>>
        ask2 == ask1 \o <<Ev("get", lab_url)>>
        ask3 == ask2 \o <<Ev("llm_professors_text", lab_url)>>
    IN  IF ~env.gemini_enabled \/ ~env.gemini_key THEN [people |-> NoNames, ev |-> <<>>]
        ELSE IF ~env.gemini_people.ok THEN [people |-> NoNames, ev |-> ask1]
        ELSE
        With(ParseAnswer(env.gemini_people), LAMBDA first :
        IF ~HttpGet(env, lab_url).ok THEN [people |-> first, ev |-> ask2]
        ELSE IF ~env.gemini_people_text.ok THEN [people |-> first, ev |-> ask3]
        ELSE IF first.names # <<>> THEN [people |-> first, ev |-> ask3]
        ELSE [people |-> ParseAnswer(env.gemini_people_text), ev |-> ask3])

\* _gemini_extract_professors(lab_url, college): (names, email_map) and the
\* requests issued
GeminiExtractProfessors(env, lab_url, college) ==
    LET ask1 == <<Ev("llm_professors", lab_url)>>
        ask2 == ask1 \o <<Ev("get", lab_url)>>
        ask3 == ask2 \o <<Ev("llm_professors_text", lab_url)>>
    IN  IF ~env.gemini_enabled \/ ~env.gemini_key THEN [people |-> NoNames, ev |-> <<>>]
        ELSE IF ~env.gemini_people.ok THEN [people |-> NoNames, ev |-> ask1]
        ELSE
        \* lines 216-236: the first answer; lines 238-276: the second one
        With(ParseAnswer(env.gemini_people), LAMBDA first :
        IF first.names # <<>> THEN [people |-> first, ev |-> ask1]
        ELSE IF ~HttpGet(env, lab_url).ok THEN [people |-> NoNames, ev |-> ask2]
        ELSE IF ~env.gemini_people_text.ok THEN [people |-> NoNames, ev |-> ask3]
        ELSE [people |-> ParseAnswer(env.gemini_people_text), ev |-> ask3])

(***************************************************************************)
(* _guess_email_for_name                                                   *)
(***************************************************************************)
\* the user name candidates of lines 917-921
UserCandidates(first, last) ==
    << Ch(first, 1) \o last, first \o "." \o last, first \o Ch(last, 1) >>

\* a slip in the candidate index: "first.last" is returned instead of "flast"
GuessEmailForName_FirstDotLast(name, lab_netloc) ==
    LET name_parts == Split(Lower(name))
    IN  IF Len(name_parts) < 2 THEN ""
        ELSE LET first == name_parts[1]
                 last == name_parts[Len(name_parts)]
                 host == IF StartsWith(lab_netloc, "www.")
                         THEN SubSeq(lab_netloc, 5, Len(lab_netloc))
                         ELSE lab_netloc
             IN  UserCandidates(first, last)[2] \o "@" \o host

GuessEmailForName(name, lab_netloc) ==
    LET name_parts == Split(Lower(name))
    IN  IF Len(name_parts) < 2 THEN ""
        ELSE LET first == name_parts[1]
                 last == name_parts[Len(name_parts)]
                 host == IF StartsWith(lab_netloc, "www.")
                         THEN SubSeq(lab_netloc, 5, Len(lab_netloc))
                         ELSE lab_netloc
             IN  UserCandidates(first, last)[1] \o "@" \o host

(***************************************************************************)
(* discover_labs_data                                                      *)
(***************************************************************************)
\* lines 796-807: the faculty list of a lab; roles is None when the lab has
\* no professor_roles key
RECURSIVE FacultyOf(_, _, _, _)
FacultyOf(professors, emails, roles, lab_url) ==
    IF professors = <<>> THEN <<>>
    ELSE LET n == professors[1]
             known == DictGet(emails, n, "")
             email_val == IF known # "" THEN known
                          ELSE GuessEmailForName(n, NetLoc(lab_url))
             role == IF IsNone(roles) THEN "Professor"
                     ELSE DictGet(Val(roles), n, "Professor")
         IN  <<[name |-> n, role |-> role, email |-> email_val]>>
                \o FacultyOf(Tail(professors), emails, roles, lab_url)

\* the enrichment loop without lines 776-777: a lab keeps the link extraction
\* gave it, or none
EnrichLab_KeepLink(env, lab, research_url, college) ==
    LET lab_url == IF IsNone(lab.lab_url) THEN "" ELSE Val(lab.lab_url)
        Kept(ev) == [found |-> None, ev |-> ev]
    IN  With(IF lab.professors # <<>> THEN Kept(<<>>)
             ELSE With(ScrapePersonnelSection(env, lab_url), LAMBDA scraped :
                  IF scraped.people.names # <<>>
                  THEN [found |-> Some(scraped.people), ev |-> scraped.ev]
                  ELSE With(GeminiExtractProfessors(env, lab_url, college), LAMBDA asked :
                       IF asked.people.names = <<>> THEN Kept(scraped.ev \o asked.ev)
                       ELSE [found |-> Some([names |-> asked.people.names,
                                             emails |-> asked.people.emails,
                                             roles |-> scraped.people.roles]),
                             ev |-> scraped.ev \o asked.ev])), LAMBDA enriched :
        LET professors == IF IsNone(enriched.found) THEN lab.professors
                          ELSE Val(enriched.found).names
            professor_emails == IF IsNone(enriched.found) THEN lab.professor_emails
                                ELSE Val(enriched.found).emails
            professor_roles == IF IsNone(enriched.found) THEN None
                               ELSE Some(Val(enriched.found).roles)
        IN  [lab |-> [name |-> lab.name,
                      description |-> lab.description,
                      professors |-> professors,
                      professor_emails |-> professor_emails,
                      professor_roles |-> professor_roles,
                      lab_url |-> lab_url,
                      faculty |-> FacultyOf(professors, professor_emails, professor_roles,
                                            lab_url)],
             ev |-> enriched.ev])

\* lines 776-807 for one lab: the record after the loop body and the
\* requests the body issued
EnrichLab(env, lab, research_url, college) ==
    LET \* lines 778-781
        lab_url == IF IsNone(lab.lab_url) \/ Val(lab.lab_url) = ""
                   THEN research_url ELSE Val(lab.lab_url)
        Kept(ev) == [found |-> None, ev |-> ev]
    IN  \* lines 782-791: found holds the names, addresses and roles written to the
        \* lab, None when the lab is left as it was
        With(IF lab.professors # <<>> THEN Kept(<<>>)
             ELSE With(ScrapePersonnelSection(env, lab_url), LAMBDA scraped :
                  IF scraped.people.names # <<>>
                  THEN [found |-> Some(scraped.people), ev |-> scraped.ev]
                  ELSE With(GeminiExtractProfessors(env, lab_url, college), LAMBDA asked :
                       IF asked.people.names = <<>> THEN Kept(scraped.ev \o asked.ev)
                       ELSE [found |-> Some([names |-> asked.people.names,
                                             emails |-> asked.people.emails,
                                             roles |-> scraped.people.roles]),
                             ev |-> scraped.ev \o asked.ev])), LAMBDA enriched :
        LET professors == IF IsNone(enriched.found) THEN lab.professors
                          ELSE Val(enriched.found).names
            professor_emails == IF IsNone(enriched.found) THEN lab.professor_emails
                                ELSE Val(enriched.found).emails
            professor_roles == IF IsNone(enriched.found) THEN None
                               ELSE Some(Val(enriched.found).roles)
        IN  \* lines 796-807
            [lab |-> [name |-> lab.name,
                      description |-> lab.description,
                      professors |-> professors,
                      professor_emails |-> professor_emails,
                      professor_roles |-> professor_roles,
                      lab_url |-> lab_url,
                      faculty |-> FacultyOf(professors, professor_emails, professor_roles,
                                            lab_url)],
             ev |-> enriched.ev])

RECURSIVE EnrichAll(_, _, _, _, _)
EnrichAll(env, labs, research_url, college, acc) ==
    IF labs = <<>> THEN acc
    ELSE With(EnrichLab(env, labs[1], research_url, college), LAMBDA one :
         EnrichAll(env, Tail(labs), research_url, college,
                   [labs |-> Append(acc.labs, one.lab), ev |-> acc.ev \o one.ev]))

NoFind == Returned("", <<>>, <<>>)

\* lines 771-818 without the check of lines 811-812: an empty list of labs is
\* returned as a catalog
LabsFrom_EmptyCatalog(env, college, major, find) ==
    IF find.kind = "raise"
    THEN [kind |-> "failed",
          error |-> "Could not find research information for " \o college.s
                        \o ". Error: " \o find.msg,
          research_url |-> "", labs |-> <<>>, major |-> major,
          ev |-> find.ev, puts |-> find.puts, find |-> find]
    ELSE
    With(EnrichAll(env, ExtractLabAreas(find.url, HttpGet(env, find.url)),
                   find.url, college.s,
                   [labs |-> <<>>, ev |-> find.ev \o <<Ev("get", find.url)>>]),
         LAMBDA done :
    [kind |-> "ok", error |-> "", research_url |-> find.url,
     labs |-> done.labs, major |-> major,
     ev |-> done.ev, puts |-> find.puts, find |-> find])

\* lines 771-818 without the handler of lines 816-818: what find_research_url
\* raises leaves discover_labs_data as it is
LabsFrom_Unwrapped(env, college, major, find) ==
    IF find.kind = "raise"
    THEN [kind |-> find.err, error |-> find.msg,
          research_url |-> "", labs |-> <<>>, major |-> major,
          ev |-> find.ev, puts |-> find.puts, find |-> find]
    ELSE
    With(EnrichAll(env, ExtractLabAreas(find.url, HttpGet(env, find.url)),
                   find.url, college.s,
                   [labs |-> <<>>, ev |-> find.ev \o <<Ev("get", find.url)>>]),
         LAMBDA done :
    IF done.labs = <<>>
    THEN [kind |-> "failed",
          error |-> "Could not find research information for " \o college.s
                        \o ". Error: Unable to extract research areas from discovered page",
          research_url |-> "", labs |-> <<>>, major |-> major,
          ev |-> done.ev, puts |-> find.puts, find |-> find]
    ELSE [kind |-> "ok", error |-> "", research_url |-> find.url,
          labs |-> done.labs, major |-> major,
          ev |-> done.ev, puts |-> find.puts, find |-> find])

\* lines 771-818 of discover_labs_data, given the outcome of find_research_url
LabsFrom(env, college, major, find) ==
    IF find.kind = "raise"
    THEN [kind |-> "failed",
          error |-> "Could not find research information for " \o college.s
                        \o ". Error: " \o find.msg,
          research_url |-> "", labs |-> <<>>, major |-> major,
          ev |-> find.ev, puts |-> find.puts, find |-> find]
    ELSE
    \* lines 771-807
    With(EnrichAll(env, ExtractLabAreas(find.url, HttpGet(env, find.url)),
                   find.url, college.s,
                   [labs |-> <<>>, ev |-> find.ev \o <<Ev("get", find.url)>>]),
         LAMBDA done :
    \* lines 809-818
    IF done.labs = <<>>
    THEN [kind |-> "failed",
          error |-> "Could not find research information for " \o college.s
                        \o ". Error: Unable to extract research areas from discovered page",
          research_url |-> "", labs |-> <<>>, major |-> major,
          ev |-> done.ev, puts |-> find.puts, find |-> find]
    ELSE [kind |-> "ok", error |-> "", research_url |-> find.url,
          labs |-> done.labs, major |-> major,
          ev |-> done.ev, puts |-> find.puts, find |-> find])

\* discover_labs_data with the check of line 763 moved behind the pipeline
DiscoverLabsData_ValidateLate(env, now, body) ==
    LET college == OrElse(body.college, body.university)
        major == OrElse(body.major, JStr("Computer Science"))
    IN  With(LabsFrom(env, college, major, FindResearchUrl(env, now, college.s, major)),
             LAMBDA out :
             IF out.find.kind # "raise" /\ (~Truthy(college) \/ college.t # "str")
             THEN [out EXCEPT !.kind = "invalid",
                              !.error = "Missing required field 'college'",
                              !.research_url = "", !.labs = <<>>]
             ELSE out)

\* discover_labs_data(body) at time `now`.  kind is "ok" for a returned
\* payload, "invalid" for the ValueError of line 764 and "failed" for the
\* ValueError of line 818; ev are the outside calls issued, puts the cache
\* writes, find the outcome of the call of find_research_url (NoFind when it
\* is not called).
DiscoverLabsData(env, now, body) ==
    LET college == OrElse(body.college, body.university)
        major == OrElse(body.major, JStr("Computer Science"))
    IN  \* lines 761-764
        IF ~Truthy(college) \/ college.t # "str"
        THEN [kind |-> "invalid", error |-> "Missing required field 'college'",
              research_url |-> "", labs |-> <<>>, major |-> major,
              ev |-> <<>>, puts |-> <<>>, find |-> NoFind]
        \* lines 768-818
        ELSE LabsFrom(env, college, major, FindResearchUrl(env, now, college.s, major))

\* lambda_handler, lines 57-69 of router.py: the status of the response to a
\* body with the key "college", given what discover_labs_data did.  A
\* ValueError (kinds "invalid" and "failed") is answered with 400, any other
\* exception with 500.
RouterStatus(out) ==
    IF out.kind = "ok" THEN 200
    ELSE IF out.kind \in {"invalid", "failed"} THEN 400
    ELSE 500

(***************************************************************************)
(* State                                                                   *)
(***************************************************************************)

NoHits ==
    [official |-> <<>>, edu |-> <<>>, univ |-> <<>>, dept |-> <<>>,
     school |-> <<>>, cs |-> <<>>, csdept |-> <<>>]

\* a world in which nothing answers and nothing is configured
EnvBase ==
    [gemini_enabled |-> FALSE, gemini_key |-> FALSE,
     \* OPENAI_API_KEY is set; the domain the chat completion would name
     openai_key |-> FALSE, openai_domain |-> "",
     live |-> {}, search_up |-> FALSE, search |-> NoHits,
     gemini_suggest |-> [ok |-> FALSE, text |-> ""],
     up |-> {}, redirect |-> EmptyDict, pages |-> EmptyDict,
     gemini_people |-> [ok |-> FALSE, kind |-> "other", items |-> <<>>, lines |-> <<>>],
     gemini_people_text |-> [ok |-> FALSE, kind |-> "other", items |-> <<>>, lines |-> <<>>]]

\* the value of a harness variable that takes no part in a specification
GuessIdle == guess = [name |-> "", host |-> "", pc |-> "idle", ret |-> ""]
ExtIdle == ext = [url |-> "", page |-> [ok |-> FALSE, doc |-> <<>>], pc |-> "idle", ret |-> <<>>]
NoDomain == [dom |-> None, src |-> "none", ev |-> <<>>]
ResIdle == res = [college |-> "", pc |-> "idle", ret |-> NoDomain]
DepIdle == dep = [root |-> "", major |-> JAbsent, pc |-> "idle", ret |-> [url |-> None, ev |-> <<>>]]
EnvIdle == world = EnvBase
NoBody == [college |-> JAbsent, university |-> JAbsent, major |-> JAbsent]
NoCall == [pc |-> "idle", body |-> NoBody, at |-> 0,
           out |-> [kind |-> "none", error |-> "", research_url |-> "", labs |-> <<>>,
                    major |-> JAbsent, ev |-> <<>>, puts |-> <<>>, find |-> NoFind]]
SvcIdle == cache = EmptyDict /\ clock = 0 /\ call = NoCall /\ log = <<>> /\ running = <<>>

(***************************************************************************)
(* Calls of _guess_email_for_name                                          *)
(***************************************************************************)
MaxNameLen == 4
NameAlphabet == {"J", "a", "d", " "}
GuessNames ==
    StrsUpTo(NameAlphabet, MaxNameLen)
        \cup {"Jane Doe", "Jane", "  Jane  Q  Doe ", "jane doe", "Www. Abc"}
GuessHosts ==
    {"www.cs.example.edu", "cs.example.edu", "www.www.x.edu", "wwwx.edu", "www.", ""}

GuessInit ==
    /\ guess \in [name : GuessNames, host : GuessHosts, pc : {"call"}, ret : {""}]
    /\ ExtIdle /\ ResIdle /\ DepIdle /\ EnvIdle /\ SvcIdle

GuessCall ==
    /\ guess.pc = "call"
    /\ guess' = [guess EXCEPT !.pc = "done",
                              !.ret = GuessEmailForName(guess.name, guess.host)]
    /\ UNCHANGED <<world, svc, ext, res, dep>>

GuessNext == GuessCall

SpecEmail == GuessInit /\ [][GuessNext]_vars

\* The expected guess, stated on the characters of the name: a token starts
\* at every non-blank character that is first or follows a blank.
TokenStarts(s) ==
    {i \in 1..Len(s) : ~IsSpace(Ch(s, i)) /\ (i = 1 \/ IsSpace(Ch(s, i - 1)))}
NonBlankAt(s) == {i \in 1..Len(s) : ~IsSpace(Ch(s, i))}
ExpectedGuess(name, host) ==
    IF Cardinality(TokenStarts(name)) < 2 THEN ""
    ELSE LowerCh(Ch(name, MinOf(TokenStarts(name))))
            \o Lower(SubSeq(name, MaxOf(TokenStarts(name)), MaxOf(NonBlankAt(name))))
            \o "@"
            \o (IF Len(host) >= 4 /\ SubSeq(host, 1, 4) = "www."
                THEN SubSeq(host, 5, Len(host)) ELSE host)

\* C8: _guess_email_for_name returns "" for a name of fewer than two
\* whitespace-separated tokens, and otherwise lower(first letter of the first
\* token) + lower(call token) + "@" + host with one leading "www." removed;
\* ("Jane Doe", "www.cs.example.edu") gives "jdoe@cs.example.edu".
C8_GuessEmail ==
    guess.pc = "done" =>
        /\ guess.ret = ExpectedGuess(guess.name, guess.host)
        /\ (guess.name = "Jane Doe" /\ guess.host = "www.cs.example.edu"
                => guess.ret = "jdoe@cs.example.edu")
        /\ (guess.name \in {"Jane", "", "   "} => guess.ret = "")

C8_Witness ==
    /\ guess.pc = "done"
    /\ guess.name = "Jane Doe" /\ guess.host = "www.cs.example.edu"
    /\ guess.ret = "jdoe@cs.example.edu"

(***************************************************************************)
(* Pages given to _extract_lab_areas                                       *)
(***************************************************************************)
MaxSections == 3
MaxLongHeadings == 44
MaxDup == 3

LongText == "Our group studies perception, learning and language at scale."
OtherText == "We build systems that see and reason about the physical world."

\* the fragments a listing page is put together from
SectionPool ==
    { \* <div class="views-row"><h3>Vision Lab</h3><a href="mailto:..">Jane Doe</a></div>
      << DivOf(0, {"views-row"}), Elem("h3", 1), TextNode(2, "Vision Lab"),
         Anchor(1, "mailto:jdoe@x.edu"), TextNode(4, "Jane Doe") >>,
      \* <h3>NLP Group</h3><p>Short body text.</p>
      << Elem("h3", 0), TextNode(1, "NLP Group"),
         Elem("p", 0), TextNode(3, "Short body text.") >>,
      \* <h2>Research</h2>
      << Elem("h2", 0), TextNode(1, "Research") >>,
      \* <h2> NEWS </h2>
      << Elem("h2", 0), TextNode(1, " NEWS ") >>,
      \* <h4>Lab</h4>
      << Elem("h4", 0), TextNode(1, "Lab") >>,
      \* <h3>\n</h3>
      << Elem("h3", 0), TextNode(1, "\n") >>,
      \* <h3><a href="/vision">Vision Lab</a></h3>
      << Elem("h3", 0), Anchor(1, "/vision"), TextNode(2, "Vision Lab") >>,
      \* <h3>\n<a href="/robots">Robot Lab</a></h3>
      << Elem("h3", 0), TextNode(1, "\n"), Anchor(1, "/robots"), TextNode(3, "Robot Lab") >>,
      \* <h2>Faculty: Ann Lee, Bob Ray</h2>
      << Elem("h2", 0), TextNode(1, "Faculty: Ann Lee, Bob Ray") >>,
      \* <h1>Department</h1>
      << Elem("h1", 0), TextNode(1, "Department") >>,
      \* <p>long text <a href="people">more</a></p>
      << Elem("p", 0), TextNode(1, LongText), Anchor(1, "people"), TextNode(3, "more") >>,
      \* <div><p>long</p><p>Professors: Cy Oz; Di Wu, and others of the group</p></div>
      << Elem("div", 0), Elem("p", 1), TextNode(2, OtherText),
         Elem("p", 1), TextNode(4, "Professors: Cy Oz; Di Wu, and other members") >>,
      \* <div class="views-row"><h4>Robotics</h4><a href="/p/jd">Dr. Jane Doe</a><a href="#">more</a></div>
      << DivOf(0, {"views-row"}), Elem("h4", 1), TextNode(2, "Robotics"),
         Anchor(1, "/p/jd"), TextNode(4, "Dr. Jane Doe"),
         Anchor(1, "#"), TextNode(6, "more") >>,
      \* <li>x * 250</li>
      << Elem("li", 0), TextNode(1, Rep("lab ", 60)) >> }

ShiftSection(sec, off) ==
    [k \in 1..Len(sec) |->
        IF sec[k].parent = 0 THEN sec[k] ELSE [sec[k] EXCEPT !.parent = @ + off]]

RECURSIVE DocsUpTo(_)
\* the documents of at most n fragments
DocsUpTo(n) ==
    IF n = 0 THEN {<<>>}
    ELSE LET shorter == DocsUpTo(n - 1)
         IN  shorter \cup {d \o ShiftSection(sec, Len(d)) : d \in shorter, sec \in SectionPool}

Digits == "0123456789"
LabName(k) == "Lab " \o Ch(Digits, (k \div 10) + 1) \o Ch(Digits, (k % 10) + 1)

RECURSIVE LongDoc(_, _, _)
\* n headings <h3>Lab kk</h3>; the first d of them carry the same name
LongDoc(n, d, k) ==
    IF k > n THEN <<>>
    ELSE << Elem("h3", 0), TextNode(2 * k - 1, LabName(IF k <= d THEN 1 ELSE k)) >>
            \o LongDoc(n, d, k + 1)

LongDocs ==
    {LongDoc(n, d, 1) : n \in (MaxLabs - 1)..MaxLongHeadings, d \in 1..MaxDup}

ExtractPages ==
    {[ok |-> TRUE, doc |-> d] : d \in DocsUpTo(MaxSections) \cup LongDocs}
        \cup {[ok |-> FALSE, doc |-> <<>>]}

ExtractInit ==
    /\ ext \in [url : {"https://cs.x.edu/research"}, page : ExtractPages,
                pc : {"call"}, ret : {<<>>}]
    /\ GuessIdle /\ ResIdle /\ DepIdle /\ EnvIdle /\ SvcIdle

ExtractCall ==
    /\ ext.pc = "call"
    /\ ext' = [ext EXCEPT !.pc = "done", !.ret = ExtractLabAreas(ext.url, ext.page)]
    /\ UNCHANGED <<world, svc, guess, res, dep>>

ExtractNext == ExtractCall

SpecExtract == ExtractInit /\ [][ExtractNext]_vars

\* C5: no record returned by _extract_lab_areas has a name that is empty,
\* shorter than 4 characters, or (ignoring case and surrounding blanks) one of
\* the reserved generic headings.
C5_NoGenericNames ==
    ext.pc = "done" =>
        \A k \in 1..Len(ext.ret) :
            /\ ext.ret[k].name # ""
            /\ Len(ext.ret[k].name) >= 4
            /\ \A g \in GenericHeadings : Strip(Lower(ext.ret[k].name)) # g

\* the titles of the h2-h4 headings of a document
HeadingTitles(doc) ==
    {GetText(doc, h) : h \in {j \in 1..Len(doc) : doc[j].tag \in HeadingTags}}

C5_Witness ==
    /\ ext.pc = "done"
    /\ Len(ext.ret) >= 1
    /\ {"NEWS", "Lab"} \subseteq HeadingTitles(ext.page.doc)

\* the list `labs` built by the loop over the headings, before lines 746-754
AcceptedLabs == LabsOf(ext.page.doc, ext.url, FindAllTags(ext.page.doc, HeadingTags, 1))
\* the positions in a list of records that hold the first record of their name
FirstOccurrences(labs) ==
    {i \in 1..Len(labs) : \A j \in 1..(i - 1) : labs[j].name # labs[i].name}

\* C6: the result holds no two records of the same name and at most 40
\* records, and is the list of accepted headings in document order with every
\* later repetition of a name removed, cut after its first 40 entries.
C6_DedupCap ==
    ext.pc = "done" /\ ext.page.ok =>
        LET labs == AcceptedLabs
            first == FirstOccurrences(labs)
        IN  /\ \A i, j \in 1..Len(ext.ret) :
                    i # j => ext.ret[i].name # ext.ret[j].name
            /\ Len(ext.ret) <= 40
            /\ Len(ext.ret) = (IF Cardinality(first) < 40 THEN Cardinality(first) ELSE 40)
            /\ \A k \in 1..Len(ext.ret) :
                    \E i \in first :
                        /\ Cardinality({j \in first : j <= i}) = k
                        /\ ext.ret[k] = labs[i]

C6_Witness ==
    /\ ext.pc = "done"
    /\ Len(AcceptedLabs) > 40
    /\ Cardinality(FirstOccurrences(AcceptedLabs)) > 40
    /\ Cardinality(FirstOccurrences(AcceptedLabs)) < Len(AcceptedLabs)
    /\ Len(ext.ret) = 40

(***************************************************************************)
(* Calls of get_root_domain                                                *)
(***************************************************************************)
DomainColleges ==
    {"Georgia Institute of Technology", "  Georgia Tech ", "MIT",
     "University of Georgia", "uga", "", "of the", "Nowhere College"}

\* the domains whose reachability the world decides
DomainUniverse ==
    {"gatech.edu", "uga.edu", "ug.edu", "www.uga.edu", "mit.edu", "college.edu"}

\* what the search engine answers to the three phrasings of get_root_domain
DomainSearchWorlds ==
    { \* the result page cannot be fetched
      [up |-> FALSE, search |-> NoHits],
      \* no results
      [up |-> TRUE, search |-> NoHits],
      \* a redirect link of the engine itself, then a direct link
      [up |-> TRUE,
       search |-> [NoHits EXCEPT
            !.official = <<"//duckduckgo.com/l/?uddg=https%3A%2F%2Fwww.uga.edu",
                           "https://www.uga.edu/about">>]],
      \* a foreign host naming the domain in its path, a malformed link, and a
      \* good link behind it; the second phrasing has the good link alone
      [up |-> TRUE,
       search |-> [NoHits EXCEPT
            !.official = <<"https://evil.com/uga.edu", "https://[bad",
                           "https://www.uga.edu/">>,
            !.edu = <<"https://www.uga.edu/">>]],
      \* the good link is the sixth result
      [up |-> TRUE,
       search |-> [NoHits EXCEPT
            !.univ = <<"https://a.com", "https://b.org/x", "https://c.net",
                       "https://d.io", "https://e.co", "https://mit.edu/">>]] }

DomainEnvs ==
    {[EnvBase EXCEPT !.live = l, !.search_up = w.up, !.search = w.search,
                     !.openai_key = k, !.openai_domain = a] :
        l \in SUBSET DomainUniverse, w \in DomainSearchWorlds, k \in BOOLEAN,
        a \in {"", "mit.edu"}}

DomainInit ==
    /\ world \in DomainEnvs
    /\ res \in [college : DomainColleges, pc : {"call"}, ret : {NoDomain}]
    /\ GuessIdle /\ ExtIdle /\ DepIdle /\ SvcIdle

DomainCall ==
    /\ res.pc = "call"
    /\ res' = [res EXCEPT !.pc = "done", !.ret = GetRootDomain(world, res.college)]
    /\ UNCHANGED <<world, svc, guess, ext, dep>>

DomainNext == DomainCall

SpecDomain == DomainInit /\ [][DomainNext]_vars

\* C3: every domain get_root_domain returns passed the liveness probe during
\* that call: the call issued a probe of exactly that domain, the domain is
\* reachable, and the probe is the call outside call before the return.
C3_ReturnedDomainProbedLive ==
    res.pc = "done" /\ ~IsNone(res.ret.dom) =>
        /\ Val(res.ret.dom) \in world.live
        /\ res.ret.ev # <<>>
        /\ res.ret.ev[Len(res.ret.ev)] = <<"probe", Val(res.ret.dom)>>

\* a domain is returned although the alias of the name is down
C3_Witness ==
    /\ res.pc = "done"
    /\ Lower(Strip(res.college)) = "georgia tech"
    /\ "gatech.edu" \notin world.live
    /\ ~IsNone(res.ret.dom)

\* C4: a name that, trimmed and lower-cased, is a key of the alias table whose
\* domain is live resolves to exactly that domain, and the one outside call
\* of the resolution is the probe of that domain: no search, no other probe.
C4_AliasWithoutSearch ==
    res.pc = "done" =>
        \A k \in DOMAIN KnownDomains :
            Lower(Strip(res.college)) = k /\ KnownDomains[k] \in world.live =>
                /\ res.ret.dom = <<KnownDomains[k]>>
                /\ res.ret.ev = << <<"probe", KnownDomains[k]>> >>
                /\ CountKind(res.ret.ev, "search") = 0

C4_Witness ==
    /\ res.pc = "done"
    /\ res.college = "Georgia Institute of Technology"
    /\ "gatech.edu" \in world.live
    /\ world.search_up
    /\ res.ret.dom = <<"gatech.edu">>
    /\ CountKind(res.ret.ev, "search") = 0

\* the requests of the latest call of get_root_domain, by strategy
ResEv == res.ret.ev
ResKey == Lower(Strip(res.college))
ResKnown == ResKey \in DOMAIN KnownDomains
ResQueries == SelectSeq(ResEv, LAMBDA e : e[1] = "search")
ResCands == GuessCandidates(res.college)
\* the first n search queries were issued, in the order of lines 289-293
QueriesInOrder(n) ==
    ResQueries = [i \in 1..n |-> Ev("search", DomainQueries(res.college)[i])]
\* the call ends with the probes of the first k candidates of the abbreviation
\* guess, in order, all search queries before them
EndsWithGuesses(k) ==
    /\ Len(ResEv) >= k
    /\ SubSeq(ResEv, Len(ResEv) - k + 1, Len(ResEv)) = [i \in 1..k |-> Ev("probe", ResCands[i])]
    /\ \A i \in (Len(ResEv) - k + 1)..Len(ResEv) : ResEv[i][1] # "search"
\* every probe but the last found its domain down
EarlierProbesFailed ==
    \A i \in 1..(Len(ResEv) - 1) : ResEv[i][1] = "probe" => ResEv[i][2] \notin world.live
\* the alias, when the name has one, was probed first
AliasFirst == ResKnown => ResEv # <<>> /\ ResEv[1] = Ev("probe", KnownDomains[ResKey])

\* C18: get_root_domain tries the alias table, the search queries, the
\* abbreviation guess and the LLM in this order, starts a strategy only when
\* every earlier one gave no domain, and raises only when all gave none.
C18_StrategiesInOrder ==
    res.pc = "done" =>
        /\ res.ret.src \in {"known", "search", "guess", "llm", "none"}
        /\ IsNone(res.ret.dom) <=> res.ret.src = "none"
        /\ AliasFirst
        /\ res.ret.src = "known" =>
              /\ ResKnown /\ ResEv = <<Ev("probe", KnownDomains[ResKey])>>
        /\ res.ret.src # "known" =>
              /\ ResKnown => KnownDomains[ResKey] \notin world.live
              /\ EarlierProbesFailed
        /\ res.ret.src = "search" =>
              /\ \E n \in 1..3 : QueriesInOrder(n)
              /\ ResEv[Len(ResEv)] = Ev("probe", Val(res.ret.dom))
              /\ \E i \in 1..Len(ResEv) :
                    /\ ResEv[i][1] = "search"
                    /\ \A j \in (i + 1)..Len(ResEv) :
                          /\ ResEv[j][1] = "probe"
                          /\ \E h \in 1..Len(SafeTextSearch(world, ResEv[i][2], SearchMax)) :
                                NetLoc(SafeTextSearch(world, ResEv[i][2], SearchMax)[h])
                                    = ResEv[j][2]
        /\ res.ret.src = "guess" =>
              /\ QueriesInOrder(3)
              /\ \E k \in 1..Len(ResCands) :
                    Val(res.ret.dom) = ResCands[k] /\ EndsWithGuesses(k)
        /\ res.ret.src = "none" =>
              /\ QueriesInOrder(3)
              /\ EndsWithGuesses(Len(ResCands))
              /\ \A i \in 1..Len(ResEv) : ResEv[i][1] = "probe" => ResEv[i][2] \notin world.live
              /\ IsNone(LLMDomain(world, res.college, ResEv).dom)

\* the alias is down, the three queries give a host that is down, the five
\* guesses are down, an LLM key is set: the call raises
C18_Witness ==
    /\ res.pc = "done" /\ res.ret.src = "none"
    /\ ResKey = "georgia tech"
    /\ world.search_up /\ world.openai_key
    /\ CountKind(ResEv, "search") = 3
    /\ CountKind(ResEv, "probe") = 7

\* C19: when the alias, the search queries and the abbreviation guess give
\* no domain, an LLM key is set and the LLM names a live domain ending in
\* ".edu", get_root_domain returns that domain.
C19_LLMFallbackSucceeds ==
    /\ res.pc = "done"
    /\ res.ret.src \notin {"known", "search", "guess"}
    /\ world.openai_key
    /\ EndsWith(world.openai_domain, ".edu")
    /\ world.openai_domain \in world.live
    => res.ret.dom = Some(world.openai_domain)

\* the three strategies ran dry, the key is set, the domain the LLM would
\* name is live, and the call raises without a request to the LLM
C19_Witness ==
    /\ res.pc = "done" /\ res.college = "Nowhere College"
    /\ world.openai_key /\ world.openai_domain = "mit.edu" /\ "mit.edu" \in world.live
    /\ world.search_up
    /\ res.ret.src = "none" /\ IsNone(res.ret.dom)
    /\ CountKind(ResEv, "search") = 3 /\ CountKind(ResEv, "probe") = 5

(***************************************************************************)
(* Calls of get_department_url                                             *)
(***************************************************************************)
DeptRoot == "uga.edu"
DeptMajors == {JStr("Computer Science"), JNum("7")}

\* the addresses that may answer the HEAD of a pattern: the first, the third
\* and the last of the list
DeptUp == {DeptPatterns(DeptRoot)[1], DeptPatterns(DeptRoot)[3], DeptPatterns(DeptRoot)[8]}

\* the third pattern redirects, or nothing does
DeptRedirects ==
    {EmptyDict, [u \in {DeptPatterns(DeptRoot)[3]} |-> "https://computing.uga.edu/"]}

\* what the search engine answers to the four phrasings of get_department_url
DeptSearchWorlds ==
    { \* the result page cannot be fetched
      [up |-> FALSE, search |-> NoHits],
      \* no results
      [up |-> TRUE, search |-> NoHits],
      \* hits of another site, without a computing token in the path, with the
      \* token in the host only; the third phrasing has a hit that is accepted
      [up |-> TRUE,
       search |-> [NoHits EXCEPT
            !.dept = <<"https://example.com/cs", "https://www.uga.edu/about",
                       "https://cs.uga.edu/">>,
            !.cs = <<"https://www.uga.edu/about", "https://www.uga.edu/Computing">>]],
      \* a malformed link of the domain ends the first query before its good
      \* hit; the second query has the good hit alone
      [up |-> TRUE,
       search |-> [NoHits EXCEPT
            !.dept = <<"https://[uga.edu/cs", "https://www.uga.edu/cs">>,
            !.school = <<"https://www.uga.edu/cs">>]],
      \* the only good hit is the sixth result
      [up |-> TRUE,
       search |-> [NoHits EXCEPT
            !.csdept = <<"https://a.com", "https://b.org/x", "https://c.net",
                         "https://d.io", "https://e.co", "https://uga.edu/cs">>]],
      \* a page of another site about the department, the domain in its path,
      \* ranked before the department's own page
      [up |-> TRUE,
       search |-> [NoHits EXCEPT
            !.dept = <<"https://rankings.example.com/uga.edu/cs",
                       "https://www.uga.edu/cs">>]] }

DeptEnvs ==
    {[EnvBase EXCEPT !.up = u, !.redirect = r, !.search_up = w.up, !.search = w.search] :
        u \in SUBSET DeptUp, r \in DeptRedirects, w \in DeptSearchWorlds}

DeptInit ==
    /\ world \in DeptEnvs
    /\ dep \in [root : {DeptRoot}, major : DeptMajors, pc : {"call"},
                ret : {[url |-> None, ev |-> <<>>]}]
    /\ GuessIdle /\ ExtIdle /\ ResIdle /\ SvcIdle

DeptCall ==
    /\ dep.pc = "call"
    /\ dep' = [dep EXCEPT !.pc = "done", !.ret = GetDepartmentUrl(world, dep.root, dep.major)]
    /\ UNCHANGED <<world, svc, guess, ext, res>>

DeptNext == DeptCall

SpecDept == DeptInit /\ [][DeptNext]_vars

\* the requests of the latest call of get_department_url
DepEv == dep.ret.ev
DepPats == DeptPatterns(dep.root)
DepQueries == DeptQueries(dep.root, dep.major)
\* the call probed the first n patterns in order and then issued the first m
\* queries in order, and nothing else
HeadsThenQueries(n, m) ==
    DepEv = [i \in 1..n |-> Ev("head", DepPats[i])]
                \o [i \in 1..m |-> Ev("search", DepQueries[i])]
\* a hit lines 444-448 accept: it names the domain and its path holds a
\* computing token
AcceptedHit(url) ==
    /\ Contains(url, dep.root)
    /\ ~UrlParseRaises(url)
    /\ \E token \in {"cs", "computer", "computing"} : Contains(Lower(UrlPath(url)), token)
\* the hits of the query the code looks at: up to a link of the domain that
\* urlparse cannot read, which ends the query (line 449)
HitsRead(query) ==
    LET hits == SafeTextSearch(world, query, SearchMax)
        bad == {i \in 1..Len(hits) : Contains(hits[i], dep.root) /\ UrlParseRaises(hits[i])}
    IN  IF bad = {} THEN hits ELSE SubSeq(hits, 1, MinOf(bad) - 1)
FirstAccepted(query) ==
    LET hits == HitsRead(query)
        good == {i \in 1..Len(hits) : AcceptedHit(hits[i])}
    IN  IF good = {} THEN None ELSE Some(hits[MinOf(good)])

\* C20: get_department_url probes the patterns in order and returns the final
\* address of the first whose HEAD answers below 400; it issues the search
\* queries only when no pattern answered; it raises only when no pattern
\* answered and no query gave an accepted hit.
C20_PatternsThenSearch ==
    dep.pc = "done" =>
        LET live == {i \in 1..Len(DepPats) : DepPats[i] \in world.up}
            found == {i \in 1..Len(DepQueries) : ~IsNone(FirstAccepted(DepQueries[i]))}
        IN  /\ live # {} =>
                  /\ HeadsThenQueries(MinOf(live), 0)
                  /\ dep.ret.url = Some(HttpHead(world, DepPats[MinOf(live)]).final)
            /\ live = {} /\ found # {} =>
                  /\ HeadsThenQueries(Len(DepPats), MinOf(found))
                  /\ dep.ret.url = FirstAccepted(DepQueries[MinOf(found)])
            /\ live = {} /\ found = {} =>
                  /\ HeadsThenQueries(Len(DepPats), Len(DepQueries))
                  /\ IsNone(dep.ret.url)
            /\ IsNone(dep.ret.url) => live = {} /\ found = {}

\* the first two patterns are down and the third redirects: its final
\* address is returned after three probes, the search engine being up
C20_Witness ==
    /\ dep.pc = "done"
    /\ world.up = {DepPats[3], DepPats[8]}
    /\ world.search_up /\ world.search.dept # <<>>
    /\ DepPats[3] \in DOMAIN world.redirect
    /\ dep.ret.url = Some("https://computing.uga.edu/")
    /\ Len(DepEv) = 3

\* C21: a URL get_department_url returns from its search phase is on the
\* resolved domain or a subdomain of it and has a computing token in its path.
C21_SameDomainHits ==
    dep.pc = "done" /\ ~IsNone(dep.ret.url) /\ CountKind(DepEv, "search") > 0 =>
        /\ \/ NetLoc(Val(dep.ret.url)) = dep.root
           \/ EndsWith(NetLoc(Val(dep.ret.url)), "." \o dep.root)
        /\ \E token \in {"cs", "computer", "computing"} :
              Contains(Lower(UrlPath(Val(dep.ret.url))), token)

\* no pattern answers; the first query returns the page of another site,
\* although the department's own page is the next hit
C21_Witness ==
    /\ dep.pc = "done"
    /\ world.up = {}
    /\ DepEv[Len(DepEv)] = Ev("search", DepQueries[1])
    /\ dep.ret.url = Some("https://rankings.example.com/uga.edu/cs")
    /\ NetLoc(Val(dep.ret.url)) = "rankings.example.com"
    /\ SafeTextSearch(world, DepQueries[1], SearchMax)[2] = "https://www.uga.edu/cs"

(***************************************************************************)
(* Calls of discover_labs_data                                             *)
(***************************************************************************)
MaxCalls == 2

\* <div class="views-row"><h3>Vision Lab</h3>
\*   <a href="mailto:jdoe@x.edu">Jane Doe</a></div>
\* <h3>NLP Group</h3><p>Short body text.</p>
ListingPage ==
    << DivOf(0, {"views-row"}), Elem("h3", 1), TextNode(2, "Vision Lab"),
       Anchor(1, "mailto:jdoe@x.edu"), TextNode(4, "Jane Doe"),
       Elem("h3", 0), TextNode(6, "NLP Group"),
       Elem("p", 0), TextNode(8, "Short body text.") >>

\* the same listing, the row of Vision Lab holding a paragraph as well
ListingPageDescribed ==
    << DivOf(0, {"views-row"}), Elem("h3", 1), TextNode(2, "Vision Lab"),
       Elem("p", 1), TextNode(4, OtherText),
       Anchor(1, "mailto:jdoe@x.edu"), TextNode(6, "Jane Doe"),
       Elem("h3", 0), TextNode(8, "NLP Group"),
       Elem("p", 0), TextNode(10, "Short body text.") >>

\* <h1>Research Labs</h1><h2><a href="/lab/ai">Machine Intelligence</a></h2>
\* <p>...</p><h2>News</h2>
ResearchPage ==
    << Elem("h1", 0), TextNode(1, "Research Labs"),
       Elem("h2", 0), Anchor(3, "/lab/ai"), TextNode(4, "Machine Intelligence"),
       Elem("p", 0), TextNode(6, LongText),
       Elem("h2", 0), TextNode(8, "News") >>

\* <h2>People</h2><ul><li>Dr. Ada Byron, Director, ada@cs.gatech.edu</li>
\* <li>Prof. Alan Kay <a href="/people/kay">profile</a></li></ul><h2>Contact</h2>
LabPage ==
    << Elem("h2", 0), TextNode(1, "People"),
       Elem("ul", 0),
       Elem("li", 3), TextNode(4, "Dr. Ada Byron, Director, ada@cs.gatech.edu"),
       Elem("li", 3), TextNode(6, "Prof. Alan Kay "),
       Anchor(6, "/people/kay"), TextNode(8, "profile"),
       Elem("h2", 0), TextNode(10, "Contact") >>

\* <h3>Lab Members</h3><ul><li><a href="mailto:ada.byron@cc.gatech.edu">Ada
\* Byron</a></li></ul><h3>Contact</h3>
MembersPage ==
    << Elem("h3", 0), TextNode(1, "Lab Members"),
       Elem("ul", 0),
       Elem("li", 3), Anchor(4, "mailto:ada.byron@cc.gatech.edu"), TextNode(5, "Ada Byron"),
       Elem("h3", 0), TextNode(7, "Contact") >>

\* <p>Office 12 <a href="mailto:kay@cs.gatech.edu">write</a></p>
ProfilePage ==
    << Elem("p", 0), TextNode(1, "Office 12 "),
       Anchor(1, "mailto:kay@cs.gatech.edu"), TextNode(3, "write") >>

\* a department home page: <h1>School of Computing</h1>
\* <a href="/about">About</a><a href="/people/labs">Our Labs</a>
\* <a href="https://other.org/research">Research</a>
HomePage ==
    << Elem("h1", 0), TextNode(1, "School of Computing"),
       Anchor(0, "/about"), TextNode(3, "About"),
       Anchor(0, "/people/labs"), TextNode(5, "Our Labs"),
       Anchor(0, "https://other.org/research"), TextNode(7, "Research") >>

\* a home page with a malformed link: <a href="http://[bad">x</a>
BrokenHomePage ==
    << Elem("h1", 0), TextNode(1, "School of Computing"),
       Anchor(0, "http://[bad"), TextNode(3, "x") >>

\* a home page whose navigation repeats a link: <h1>School of Computing</h1>
\* <a href="/people/labs">Our Labs</a>, four times
\* <a href="/news">Research news</a>, then About, Contact, Events, Alumni,
\* a link four segments deep and a link to another host
NavHomePage ==
    << Elem("h1", 0), TextNode(1, "School of Computing"),
       Anchor(0, "/people/labs"), TextNode(3, "Our Labs"),
       Anchor(0, "/news"), TextNode(5, "Research news"),
       Anchor(0, "/news"), TextNode(7, "Research news"),
       Anchor(0, "/news"), TextNode(9, "Research news"),
       Anchor(0, "/news"), TextNode(11, "Research news"),
       Anchor(0, "/about"), TextNode(13, "About"),
       Anchor(0, "/contact"), TextNode(15, "Contact"),
       Anchor(0, "/events"), TextNode(17, "Events"),
       Anchor(0, "/alumni"), TextNode(19, "Alumni"),
       Anchor(0, "/people/faculty/jane/labs"), TextNode(21, "Jane's labs"),
       Anchor(0, "https://other.org/research"), TextNode(23, "Research") >>

\* a home page without links or section headings
BareHomePage == << Elem("h1", 0), TextNode(1, "School of Computing") >>

\* <h3>Vision Lab Faculty: Ann Lee, Bob Ray; Ann Lee</h3><p>...</p>
FacultyPage ==
    << Elem("h3", 0), TextNode(1, "Vision Lab Faculty: Ann Lee, Bob Ray; Ann Lee"),
       Elem("p", 0), TextNode(3, LongText) >>

DeptUrl == "https://www.cs.gatech.edu"
Suggested == "https://www.cc.gatech.edu/research-areas"
Moved == "https://www.cc.gatech.edu/research"

Pages(pairs) == [u \in {p[1] : p \in pairs} |-> (CHOOSE p \in pairs : p[1] = u)[2]]

LLMOn == [EnvBase EXCEPT !.gemini_enabled = TRUE, !.gemini_key = TRUE,
                         !.live = {"gatech.edu"}]
LLMOff == [EnvBase EXCEPT !.live = {"gatech.edu"}]

Worlds ==
    { \* the LLM names a page that has moved; the listing is behind it, and
      \* the LLM lists people in plain text
      [LLMOn EXCEPT
          !.gemini_suggest = [ok |-> TRUE, text |-> " " \o Suggested \o "\n"],
          !.up = {Suggested},
          !.redirect = Pages({<<Suggested, Moved>>}),
          !.pages = Pages({<<Moved, ListingPage>>}),
          !.gemini_people = [ok |-> TRUE, kind |-> "text", items |-> <<>>,
                             lines |-> <<"- Alan Turing (turing@x.edu)">>]],
      \* the page the LLM names is gone; the department answers at its first
      \* address and has a research page, whose lab has a page of its own
      [LLMOn EXCEPT
          !.gemini_suggest = [ok |-> TRUE, text |-> Suggested],
          !.up = {DeptUrl},
          !.pages = Pages({<<DeptUrl, HomePage>>,
                           <<DeptUrl \o "/research", ResearchPage>>,
                           <<DeptUrl \o "/lab/ai", LabPage>>,
                           <<DeptUrl \o "/people/kay", ProfilePage>>})],
      \* the LLM does not know; the department is found by search, and a
      \* link of its home page is the listing
      [LLMOn EXCEPT
          !.gemini_suggest = [ok |-> TRUE, text |-> "unknown"],
          !.search_up = TRUE,
          !.search = [NoHits EXCEPT !.cs = <<"https://gatech.edu/computing">>],
          !.pages = Pages({<<"https://gatech.edu/computing", HomePage>>,
                           <<"https://gatech.edu/people/labs", ResearchPage>>,
                           <<"https://gatech.edu/lab/ai", BareHomePage>>}),
          !.gemini_people = [ok |-> TRUE, kind |-> "other", items |-> <<>>, lines |-> <<>>],
          !.gemini_people_text =
              [ok |-> TRUE, kind |-> "json", lines |-> <<>>,
               items |-> <<[name |-> " Grace Hopper ", email |-> ""],
                           [name |-> "", email |-> "x@y.edu"]>>]],
      \* the LLM request fails; the department answers HEAD but not GET
      [LLMOn EXCEPT !.up = {DeptUrl}],
      \* the LLM names a page that is no listing; the home page is the listing
      [LLMOn EXCEPT
          !.gemini_suggest = [ok |-> TRUE, text |-> "See https://www.gatech.edu/about."],
          !.up = {DeptUrl},
          !.pages = Pages({<<DeptUrl, ListingPageDescribed>>})],
      \* the LLM names a page of another institution
      [LLMOn EXCEPT
          !.gemini_suggest = [ok |-> TRUE, text |-> "https://www.mit.edu/research"],
          !.up = {DeptUrl},
          !.pages = Pages({<<DeptUrl, BareHomePage>>})],
      \* the department answers HEAD but not GET, and its research page is
      \* at the first address step 6 would try
      [LLMOff EXCEPT
          !.up = {DeptUrl},
          !.pages = Pages({<<DeptUrl \o "/research", ResearchPage>>})],
      \* the home page is the listing and its heading names the faculty
      [LLMOff EXCEPT !.up = {DeptUrl}, !.pages = Pages({<<DeptUrl, FacultyPage>>})],
      \* the home page links to pages that are no listing
      [LLMOff EXCEPT !.up = {DeptUrl},
                     !.pages = Pages({<<DeptUrl, NavHomePage>>,
                                      <<DeptUrl \o "/news", BareHomePage>>})],
      \* the lab's page lists its members with their mailto links
      [LLMOff EXCEPT !.up = {DeptUrl},
                     !.pages = Pages({<<DeptUrl, HomePage>>,
                                      <<DeptUrl \o "/research", ResearchPage>>,
                                      <<DeptUrl \o "/lab/ai", MembersPage>>})],
      \* nothing is configured and nothing answers
      EnvBase,
      \* the institution answers, no department does
      LLMOff,
      \* the home page holds a malformed link
      [LLMOff EXCEPT !.up = {DeptUrl}, !.pages = Pages({<<DeptUrl, BrokenHomePage>>})],
      \* the home page leads nowhere and lists nothing; an API key is set but
      \* the LLM library is not installed
      [LLMOff EXCEPT !.gemini_key = TRUE,
                     !.gemini_suggest = [ok |-> TRUE, text |-> Suggested],
                     !.up = {DeptUrl, Suggested},
                     !.pages = Pages({<<DeptUrl, BareHomePage>>})],
      \* the LLM library is installed but no API key is set; the LLM would
      \* name a page that answers and would list the people of the lab, whose
      \* own page names nobody
      [LLMOff EXCEPT
          !.gemini_enabled = TRUE,
          !.gemini_suggest = [ok |-> TRUE, text |-> Suggested],
          !.up = {DeptUrl, Suggested},
          !.pages = Pages({<<DeptUrl, HomePage>>,
                           <<DeptUrl \o "/research", ResearchPage>>,
                           <<DeptUrl \o "/lab/ai", BareHomePage>>}),
          !.gemini_people = [ok |-> TRUE, kind |-> "text", items |-> <<>>,
                             lines |-> <<"- Alan Turing (turing@x.edu)">>]] }

\* request bodies: college, university and major given, absent, empty or not
\* strings
Bodies ==
    { [NoBody EXCEPT !.college = JStr("Georgia Tech")],
      [NoBody EXCEPT !.college = JStr(" georgia tech "),
                     !.major = JStr("Computer Science")],
      [NoBody EXCEPT !.university = JStr("Georgia Tech"), !.major = JNum("7")],
      [NoBody EXCEPT !.college = JStr(""), !.major = JStr("Physics")],
      [NoBody EXCEPT !.college = JNum("5")],
      NoBody }

\* the seconds that pass between two requests
Delays == {1, GEMINI_CACHE_TTL}

RECURSIVE ApplyPuts(_, _)
\* _GEMINI_CACHE[key] = (url, ts), for the writes of a call in order
ApplyPuts(c, puts) ==
    IF puts = <<>> THEN c
    ELSE ApplyPuts(DictPut(c, puts[1].key, [url |-> puts[1].url, ts |-> puts[1].ts]),
                   Tail(puts))

Init ==
    /\ world \in Worlds
    /\ SvcIdle
    /\ GuessIdle /\ ExtIdle /\ ResIdle /\ DepIdle

\* a request with body `body` arrives d seconds after the previous one and
\* discover_labs_data runs to its end
Discover(body, d) ==
    /\ Len(log) < MaxCalls
    /\ clock' = clock + d
    /\ call' = [pc |-> "done", body |-> body, at |-> clock + d,
                out |-> DiscoverLabsData(world, clock + d, body)]
    /\ cache' = ApplyPuts(cache, call'.out.puts)
    /\ log' = Append(log, [valid |-> call'.out.kind # "invalid",
                           college |-> OrElse(body.college, body.university),
                           major |-> call'.out.major,
                           key |-> CacheKey(OrElse(body.college, body.university).s,
                                            call'.out.major),
                           at |-> clock + d,
                           llm |-> CountKind(call'.out.find.ev, "llm_suggest"),
                           find |-> [kind |-> call'.out.find.kind,
                                     url |-> call'.out.find.url,
                                     err |-> call'.out.find.err]])
    /\ UNCHANGED <<world, guess, ext, res, dep, running>>

Next == \E body \in Bodies, d \in Delays : Discover(body, d)

Spec == Init /\ [][Next]_vars

\* the argument `college` of the latest call, and whether line 763 rejects it
CallCollege == OrElse(call.body.college, call.body.university)
Rejected(body) ==
    LET college == OrElse(body.college, body.university)
    IN  ~Truthy(college) \/ college.t # "str"

\* the pairs of calls C1 speaks of: the same key, string arguments, less than
\* the TTL apart, the LLM configured
SameKeyInWindow(i, j) ==
    /\ i < j
    /\ log[i].valid /\ log[j].valid
    /\ log[i].major.t = "str" /\ log[j].major.t = "str"
    /\ log[i].key = log[j].key
    /\ log[j].at - log[i].at < GEMINI_CACHE_TTL
    /\ world.gemini_enabled /\ world.gemini_key

\* C1: of two discovery calls with the same (institution, department) key,
\* trimmed and lower-cased, made within the cache TTL with the LLM enabled, at
\* most one issues the LLM research-URL suggestion call.
C1_OneSuggestionPerWindow ==
    \A i, j \in 1..Len(log) :
        SameKeyInWindow(i, j) => log[i].llm + log[j].llm <= 1

\* the second call asks the LLM again although the first call's entry for the
\* key is in the cache and fresh
C1_Witness ==
    /\ Len(log) = 2
    /\ SameKeyInWindow(1, 2)
    /\ log[1].college # log[2].college
    /\ log[1].llm = 1 /\ log[2].llm = 1
    /\ log[2].key \in DOMAIN cache

\* C2 as stated: every call of find_research_url ends by returning an address.
C2_NeverRaises ==
    \A i \in 1..Len(log) : log[i].valid => log[i].find.kind = "url"

\* C2, amended: find_research_url returns an address or raises, and it raises
\* only (a) RuntimeError when the root domain is not resolved, (b) RuntimeError
\* when no department page is located, (c) the exception of the GET of the
\* department home page, the first GET of the call, (d) ValueError for a link
\* of the home page that cannot be parsed, (e) AttributeError when major is
\* not a string and the LLM step, having asked, goes on to the cache write.
C2_RaisesOnlyWhen ==
    call.pc = "done" /\ call.out.kind # "invalid" /\ call.out.find.kind = "raise" =>
        LET f == call.out.find
            ev == f.ev
            final == ev[Len(ev)]
            gets == {i \in 1..Len(ev) : ev[i][1] = "get"}
        IN  \/ /\ f.err = "RuntimeError"
               /\ IsNone(GetRootDomain(world, CallCollege.s).dom)
               /\ \A i \in 1..Len(ev) : ev[i][1] \in {"probe", "search"}
            \/ /\ f.err = "RuntimeError"
               /\ ~IsNone(GetRootDomain(world, CallCollege.s).dom)
               /\ gets = {}
               /\ \A i \in 1..Len(ev) : ev[i][1] = "head" => ev[i][2] \notin world.up
               /\ final[1] = "search"
            \/ /\ f.err = "RequestException"
               /\ gets = {Len(ev)}
               /\ final[2] \notin DOMAIN world.pages
            \/ /\ f.err = "ValueError"
               /\ gets # {}
               /\ LET home == world.pages[ev[MinOf(gets)][2]]
                  IN  \E a \in 1..Len(home) :
                        IsAnchorHref(home[a]) /\ UrlParseRaises(Strip(home[a].href))
            \/ /\ f.err = "AttributeError"
               /\ call.out.major.t # "str"
               /\ world.gemini_enabled /\ world.gemini_key
               /\ final[1] = "llm_suggest"

\* each of the five ways of raising happens
C2_Witness ==
    /\ call.pc = "done" /\ call.out.find.kind = "raise"
    /\ call.out.find.err = "RequestException"
    /\ Len(log) = 2 /\ log[1].find.err = "AttributeError"

\* the page discovery reads is the listing of C7
OnListing(pages) ==
    /\ call.pc = "done" /\ call.out.find.kind = "url"
    /\ call.out.find.url \in DOMAIN world.pages
    /\ world.pages[call.out.find.url] \in pages

JaneDoe == <<[name |-> "Jane Doe", role |-> "Professor", email |-> "jdoe@x.edu"]>>

C9_Idempotent ==
    \A i, j \in 1..Len(log) :
        /\ i < j
        /\ log[i].valid /\ log[j].valid
        /\ log[i].college = log[j].college /\ log[i].major = log[j].major
        => log[j].find = log[i].find

\* the second of two equal calls returns the address of the first although
\* the cache holds a fresh entry with another address for the key
C9_Witness ==
    /\ Len(log) = 2
    /\ log[1].valid /\ log[1].college = log[2].college /\ log[1].major = log[2].major
    /\ log[2].at - log[1].at < GEMINI_CACHE_TTL
    /\ log[2].find.kind = "url"
    /\ log[2].key \in DOMAIN cache
    /\ ~IsNone(cache[log[2].key].url)
    /\ Val(cache[log[2].key].url) # log[2].find.url

\* what C10 asks of one call: `log' # log` marks the step of a call
ValidationFirst ==
    log' # log =>
        /\ Rejected(call'.body) =>
              /\ call'.out.kind = "invalid"
              /\ call'.out.error = "Missing required field 'college'"
              /\ call'.out.ev = <<>>
              /\ cache' = cache
        /\ ~Rejected(call'.body) /\ call'.body.major = JAbsent =>
              /\ call'.out.kind # "invalid"
              /\ call'.out.major = JStr("Computer Science")

\* C10: a request whose college/university is missing, empty or not a string
\* ends in the validation error with no HTTP, search or LLM call issued and
\* the cache untouched; a missing major is read as "Computer Science" and is
\* no error.
C10_ValidationFirst == [][ValidationFirst]_vars

\* a rejected request in a world where a valid one reaches the network and
\* has filled the cache
C10_Witness ==
    /\ call.pc = "done" /\ call.out.kind = "invalid"
    /\ call.body.college = JNum("5")
    /\ cache # EmptyDict
    /\ Len(log) = 2 /\ log[1].llm = 1 /\ log[1].major = JStr("Computer Science")

\* the failure discover_labs_data raises at line 818, whatever went wrong
FailurePrefix == "Could not find research information for " \o CallCollege.s \o ". Error: "

\* C11: a catalog returned by discover_labs_data lists at least one lab; when
\* the research page is found and _extract_lab_areas yields no lab, the call
\* fails with the "Could not find research information" failure that a page
\* not found gives.
C11_NoEmptyCatalog ==
    call.pc = "done" =>
        /\ call.out.kind = "ok" => Len(call.out.labs) >= 1
        /\ call.out.kind # "invalid" /\ call.out.find.kind = "raise" =>
              call.out.kind = "failed" /\ StartsWith(call.out.error, FailurePrefix)
        /\ /\ call.out.kind # "invalid"
           /\ call.out.find.kind = "url"
           /\ ExtractLabAreas(call.out.find.url, HttpGet(world, call.out.find.url)) = <<>>
           => /\ call.out.kind = "failed"
              /\ StartsWith(call.out.error, FailurePrefix)
              /\ call.out.labs = <<>> /\ call.out.research_url = ""

\* the department home page is returned as the research page and holds no lab
C11_Witness ==
    /\ call.pc = "done" /\ call.out.kind = "failed"
    /\ call.out.find.kind = "url"
    /\ call.out.find.url = DeptUrl
    /\ HttpGet(world, DeptUrl).ok
    /\ call.out.error = FailurePrefix \o "Unable to extract research areas from discovered page"

\* C12: the failure of one HTTP or LLM request of the discovery chain is
\* absorbed where it happens and the next strategy is tried: no call of
\* find_research_url ends in the exception of a request.
C12_FailuresAbsorbed ==
    call.pc = "done" /\ call.out.kind # "invalid" /\ call.out.find.kind = "raise" =>
        call.out.find.err # "RequestException"

\* the GET of the department home page fails and ends the call, although the
\* first address of step 6 is a research page
C12_Witness ==
    /\ call.pc = "done" /\ call.out.kind = "failed"
    /\ call.out.find.err = "RequestException"
    /\ call.out.find.ev[Len(call.out.find.ev)] = Ev("get", DeptUrl)
    /\ ~HttpGet(world, DeptUrl).ok
    /\ IsResearchPage(world, ResearchPatterns(DeptUrl)[1])
    /\ ExtractLabAreas(ResearchPatterns(DeptUrl)[1],
                       HttpGet(world, ResearchPatterns(DeptUrl)[1])) # <<>>

LLMKinds == {"llm_suggest", "llm_professors", "llm_professors_text"}

\* C13: with the LLM library missing or no API key set, the LLM steps do
\* nothing: _gemini_suggest_research_url returns None and
\* _gemini_extract_professors no names, neither issues a request, the cache
\* stays as it was, and find_research_url goes on to the department patterns.
C13_LLMOffNoOp ==
    /\ ~(world.gemini_enabled /\ world.gemini_key)
    /\ call.pc = "done" /\ call.out.kind # "invalid"
    => /\ \A root \in {"", "gatech.edu"} :
             GeminiSuggest(world, call.at, CallCollege.s, call.out.major, root)
                = [url |-> None, raised |-> "", ev |-> <<>>, puts |-> <<>>]
       /\ \A k \in 1..Len(call.out.labs) :
             GeminiExtractProfessors(world, call.out.labs[k].lab_url, CallCollege.s)
                = [people |-> NoNames, ev |-> <<>>]
       /\ \A i \in 1..Len(call.out.ev) : call.out.ev[i][1] \notin LLMKinds
       /\ call.out.puts = <<>> /\ cache = EmptyDict
       /\ call.out.find.err # "AttributeError"
       /\ ~IsNone(GetRootDomain(world, CallCollege.s).dom) =>
             \E i \in 1..Len(call.out.find.ev) :
                call.out.find.ev[i]
                    = Ev("head", DeptPatterns(Val(GetRootDomain(world, CallCollege.s).dom))[1])

\* no API key: the lab is returned without professors although the LLM would
\* have named the research page and a professor
C13_Witness ==
    /\ world.gemini_enabled /\ ~world.gemini_key
    /\ world.gemini_suggest.ok /\ world.gemini_people.ok
    /\ call.pc = "done" /\ call.out.kind = "ok"
    /\ call.out.research_url = DeptUrl \o "/research"
    /\ call.out.labs[1].professors = <<>>
    /\ call.out.major.t = "num"

(***************************************************************************)
(* Invocations side by side                                                *)
(*                                                                         *)
(* Two invocations of find_research_url for one cache key.  An invocation  *)
(* gives way to the other where it blocks: at the request to the LLM       *)
(* (line 118).  What follows the answer, lines 123-155 with the write to   *)
(* _GEMINI_CACHE, is one step.  The LLM is a service outside the program:  *)
(* the prompt (line 113) holds college and major as given, not the         *)
(* normalised key, and a request may fail, so each request has an answer   *)
(* of its own.                                                             *)
(***************************************************************************)
Invocations == {1, 2}

\* arguments that all give the key ("georgia tech", "computer science")
RaceColleges == {"Georgia Tech", " georgia tech "}
RaceMajors == {JStr("Computer Science"), JStr("computer science ")}

\* what generate_content can answer: a failed request, "unknown", a research
\* page, another research page, a page of another institution, a page that is
\* no research page
RaceAnswers ==
    { [ok |-> FALSE, text |-> ""],
      [ok |-> TRUE, text |-> "unknown"],
      [ok |-> TRUE, text |-> Suggested],
      [ok |-> TRUE, text |-> "https://www.cc.gatech.edu/labs"],
      [ok |-> TRUE, text |-> "https://www.mit.edu/research"],
      [ok |-> TRUE, text |-> "https://www.gatech.edu/about"] }

RaceInit ==
    /\ world = LLMOn
    /\ cache = EmptyDict /\ clock = 0 /\ call = NoCall /\ log = <<>>
    /\ GuessIdle /\ ExtIdle /\ ResIdle /\ DepIdle
    /\ running \in [Invocations ->
                      {[college |-> c, major |-> m, pc |-> "start", root |-> "",
                        got |-> [ok |-> FALSE, text |-> ""], puts |-> <<>>]
                          : c \in RaceColleges, m \in RaceMajors}]

\* line 512 and lines 96-121 of invocation p: the root domain is resolved and
\* the request to the LLM is answered with `answer`
RaceAsk(p, answer) ==
    /\ running[p].pc = "start"
    /\ running' = [running EXCEPT
                      ![p].pc = "asked",
                      ![p].root = Val(GetRootDomain(world, running[p].college).dom),
                      ![p].got = answer]
    /\ clock' = clock + 1
    /\ UNCHANGED <<world, cache, call, log, guess, ext, res, dep>>

\* lines 123-155 of invocation p: the answer is read and the cache written
RaceStore(p) ==
    /\ running[p].pc = "asked"
    /\ running' = [running EXCEPT
                      ![p].pc = "done",
                      ![p].puts = GeminiSuggest([world EXCEPT !.gemini_suggest = running[p].got],
                                                clock + 1, running[p].college,
                                                running[p].major, running[p].root).puts]
    /\ cache' = ApplyPuts(cache, running'[p].puts)
    /\ clock' = clock + 1
    /\ UNCHANGED <<world, call, log, guess, ext, res, dep>>

RaceNext ==
    \E p \in Invocations :
        \/ \E answer \in RaceAnswers : RaceAsk(p, answer)
        \/ RaceStore(p)

SpecRace == RaceInit /\ [][RaceNext]_vars

RaceKey == CacheKey("Georgia Tech", JStr("Computer Science"))
RaceDone == running # <<>> /\ \A p \in Invocations : running[p].pc = "done"

\* C14: two invocations for one key, running side by side within the TTL,
\* leave the same url (or null) in the cache whichever of them writes last:
\* the entries they write for the key hold the same url.
C14_OrderIndependent ==
    RaceDone =>
        \A p, q \in Invocations :
            running[p].puts # <<>> /\ running[q].puts # <<>> =>
                running[p].puts[1].url = running[q].puts[1].url

\* invocation 1 was answered with a page and invocation 2 not at all; 2 asked
\* first and wrote last, and its null has replaced the page
C14_Witness ==
    /\ RaceDone
    /\ \A p \in Invocations : running[p].puts # <<>> /\ running[p].puts[1].key = RaceKey
    /\ running[1].puts[1].url = Some(Suggested)
    /\ running[2].puts[1].url = None
    /\ running[2].puts[1].ts > running[1].puts[1].ts
    /\ running[2].puts[1].ts - running[1].puts[1].ts < GEMINI_CACHE_TTL
    /\ cache[RaceKey].url = None

\* the labs _extract_lab_areas gave the latest call, before lines 775-807
Extracted == ExtractLabAreas(call.out.find.url, HttpGet(world, call.out.find.url))

\* C15: every lab of a returned catalog has a link: the one extraction found
\* for it, and the research page of the catalog when extraction found none.
C15_LabUrlNeverNull ==
    call.pc = "done" /\ call.out.kind = "ok" =>
        /\ call.out.research_url = call.out.find.url
        /\ call.out.research_url # ""
        /\ Len(call.out.labs) = Len(Extracted)
        /\ \A k \in 1..Len(call.out.labs) :
              /\ call.out.labs[k].lab_url # ""
              /\ call.out.labs[k].lab_url =
                    IF IsNone(Extracted[k].lab_url) \/ Val(Extracted[k].lab_url) = ""
                    THEN call.out.research_url
                    ELSE Val(Extracted[k].lab_url)

\* a catalog with a lab that has a link of its own and one that has none
C15_Witness ==
    /\ call.pc = "done" /\ call.out.kind = "ok"
    /\ Len(call.out.labs) = 2
    /\ ~IsNone(Extracted[1].lab_url)
    /\ call.out.labs[1].lab_url # call.out.research_url
    /\ IsNone(Extracted[2].lab_url)
    /\ call.out.labs[2].lab_url = call.out.research_url

\* C16: in every lab of a returned catalog no name stands twice in the
\* professors list and no name twice in the faculty list.
C16_NamesUnique ==
    call.pc = "done" /\ call.out.kind = "ok" =>
        \A k \in 1..Len(call.out.labs) :
            LET lab == call.out.labs[k]
            IN  /\ \A i, j \in 1..Len(lab.professors) :
                        i # j => lab.professors[i] # lab.professors[j]
                /\ \A i, j \in 1..Len(lab.faculty) :
                        i # j => lab.faculty[i].name # lab.faculty[j].name

\* the names split off the heading at line 662 are returned as they stand
C16_Witness ==
    /\ OnListing({FacultyPage})
    /\ call.out.kind = "ok"
    /\ call.out.labs[1].professors = <<"Ann Lee", "Bob Ray", "Ann Lee">>
    /\ Len(call.out.labs[1].faculty) = 3
    /\ call.out.labs[1].faculty[1] = call.out.labs[1].faculty[3]

\* C17: every lab of a returned catalog carries the seven keys name,
\* description, professors, professor_emails, professor_roles, lab_url and
\* faculty.  The first five of the other six are set at lines 738-744 and
\* faculty at line 807 for every lab; professor_roles is the key that can be
\* missing (None).
C17_SevenKeys ==
    call.pc = "done" /\ call.out.kind = "ok" =>
        \A k \in 1..Len(call.out.labs) :
            /\ DOMAIN call.out.labs[k] =
                  {"name", "description", "professors", "professor_emails",
                   "professor_roles", "lab_url", "faculty"}
            /\ ~IsNone(call.out.labs[k].professor_roles)

\* one catalog, two labs: the first has its professor from the page and no
\* professor_roles, the second was enriched and has the key
C17_Witness ==
    /\ OnListing({ListingPage})
    /\ call.out.kind = "ok" /\ Len(call.out.labs) = 2
    /\ call.out.labs[1].professors = <<"Jane Doe">>
    /\ IsNone(call.out.labs[1].professor_roles)
    /\ call.out.labs[2].professors # <<>>
    /\ call.out.labs[2].professor_roles = Some(EmptyDict)

(***************************************************************************)
(* The fallback of find_research_url                                       *)
(***************************************************************************)

\* the events of the search for the listing made by the call just handled
FindEv == call.out.find.ev
\* the positions of its page fetches; the first one fetches the home page
FindGets == {i \in 1..Len(FindEv) : FindEv[i][1] = "get"}
HomeUrl == FindEv[MinOf(FindGets)][2]
HomeFetched ==
    /\ call.pc = "done" /\ call.out.kind # "invalid"
    /\ FindGets # {} /\ HttpGet(world, HomeUrl).ok

CallRoot == GetRootDomain(world, CallCollege.s)
LLMConfigured == world.gemini_enabled /\ world.gemini_key
LLMUrl ==
    IF world.gemini_suggest.ok THEN UrlSearch(Strip(world.gemini_suggest.text)) ELSE None
\* the conditions of lines 137, 142 and 521
SuggestionAccepted ==
    /\ LLMConfigured /\ ~IsNone(LLMUrl)
    /\ Contains(Val(LLMUrl), Val(CallRoot.dom))
    /\ \E token \in {"research", "labs", "groups"} : Contains(Lower(Val(LLMUrl)), token)
    /\ HttpHead(world, Val(LLMUrl)).ok

\* C23: for a string major and a resolved domain, the LLM is asked right
\* after the domain resolution; when its URL names the domain, holds
\* research/labs/groups and answers its HEAD probe, find_research_url returns
\* the address the probe ended at and issues nothing else (no department
\* probe, no search, no fetch); otherwise the chain goes on to the department
\* patterns and the result does not come from the LLM.
C23_SuggestionShortCircuits ==
    /\ call.pc = "done" /\ call.out.kind # "invalid"
    /\ call.out.major.t = "str" /\ ~IsNone(CallRoot.dom)
    => LET f == call.out.find
           n == Len(CallRoot.ev)
           asked == Ev("llm_suggest", CallCollege.s \o "|" \o Fmt(call.out.major))
       IN  /\ Len(f.ev) >= n /\ SubSeq(f.ev, 1, n) = CallRoot.ev
           /\ LLMConfigured => Len(f.ev) > n /\ f.ev[n + 1] = asked
           /\ SuggestionAccepted =>
                 /\ f.kind = "url" /\ f.url = HttpHead(world, Val(LLMUrl)).final
                 /\ f.ev = CallRoot.ev \o <<asked, Ev("head", Val(LLMUrl))>>
           /\ ~SuggestionAccepted =>
                 \E i \in (n + 1)..Len(f.ev) :
                    /\ f.ev[i] = Ev("head", DeptPatterns(Val(CallRoot.dom))[1])
                    /\ \A j \in (n + 1)..(i - 1) :
                          \/ f.ev[j] = asked
                          \/ ~IsNone(LLMUrl) /\ f.ev[j] = Ev("head", Val(LLMUrl))

\* the LLM names a page that has moved: the address it moved to is returned
\* and the probe of the suggestion is the last thing the call issued
C23_Witness ==
    /\ call.pc = "done" /\ call.out.kind # "invalid" /\ call.out.major.t = "str"
    /\ SuggestionAccepted
    /\ Val(LLMUrl) = Suggested /\ HttpHead(world, Suggested).final = Moved
    /\ call.out.find.url = Moved
    /\ call.out.find.ev[Len(call.out.find.ev)] = Ev("head", Suggested)

(***************************************************************************)
(* The scores of score_links                                               *)
(***************************************************************************)

\* the home page of the call just handled and what score_links makes of it
HomeDoc == HttpGet(world, HomeUrl).doc
Ranked == ScoreLinks(HomeUrl, HomeDoc)
\* the call came to line 586 and score_links returned
ScoringReached ==
    /\ HomeFetched
    /\ \A i \in 1..8 : ~IsResearchPage(world, ResearchPatterns(HomeUrl)[i])
    /\ ~Ranked.raised

\* the address anchor i of the home page leads to, the anchors that lead to
\* the host of the home page at most MaxDepth segments deep, and their addresses
LinkOf(i) == UrlJoin(HomeUrl, Strip(HomeDoc[i].href))
Eligible ==
    {i \in 1..Len(HomeDoc) :
        /\ IsAnchorHref(HomeDoc[i])
        /\ NetLoc(LinkOf(i)) = NetLoc(HomeUrl)
        /\ PathDepth(UrlPath(LinkOf(i))) <= MaxDepth}
Candidates == {LinkOf(i) : i \in Eligible}

\* 2 for a path and 1 for a text that holds a research keyword, summed over
\* the anchors that lead to url
Total(url) ==
    2 * Cardinality({i \in Eligible : LinkOf(i) = url /\ ResearchWords(UrlPath(url))})
      + Cardinality({i \in Eligible : LinkOf(i) = url /\ ResearchWords(GetText(HomeDoc, i))})
\* the same counted once for the address
OnceOnly(url) ==
    (IF ResearchWords(UrlPath(url)) THEN 2 ELSE 0)
      + (IF \E i \in Eligible : LinkOf(i) = url /\ ResearchWords(GetText(HomeDoc, i))
         THEN 1 ELSE 0)

\* the candidates the call fetched after the home page and the eight suffixes
Probed == SubSeq(SelectSeq(FindEv, LAMBDA e : e[1] = "get"), 10, Cardinality(FindGets))

\* C24 as stated: every candidate of score_links scores 2*(path matches) +
\* 1*(anchor text matches), a value of 0..3 that depends on its path and
\* anchor text only, and the result lists the candidates by that score,
\* highest first.
C24_ScoreWithinThree ==
    ScoringReached =>
        /\ \A url \in Candidates : Total(url) = OnceOnly(url) /\ Total(url) \in 0..3
        /\ \A i, j \in 1..Len(Ranked.urls) :
              i < j => OnceOnly(Ranked.urls[i]) >= OnceOnly(Ranked.urls[j])

\* C24 amended: the score of a candidate is the sum over all anchors that
\* lead to it; the result holds the min(top_n, number of candidates) distinct
\* same-host addresses of depth at most 3 with the highest sums, highest
\* first, and the call fetches them in that order.
C24_ScoresAccumulate ==
    ScoringReached =>
        LET urls == Ranked.urls
        IN  /\ Len(urls) = IF Cardinality(Candidates) < TopN
                           THEN Cardinality(Candidates) ELSE TopN
            /\ \A i \in 1..Len(urls) : urls[i] \in Candidates
            /\ \A i, j \in 1..Len(urls) : i < j =>
                  urls[i] # urls[j] /\ Total(urls[i]) >= Total(urls[j])
            /\ \A url \in Candidates : ~InSeq(url, urls) =>
                  \A i \in 1..Len(urls) : Total(urls[i]) >= Total(url)
            /\ Len(Probed) <= Len(urls)
            /\ \A k \in 1..Len(Probed) : Probed[k] = Ev("get", urls[k])

\* the page linked four times with a matching text scores 4 and is fetched
\* before the labs page, whose path and text both match; the sixth candidate
\* is cut off
C24_Witness ==
    /\ ScoringReached
    /\ Total(DeptUrl \o "/news") = 4 /\ OnceOnly(DeptUrl \o "/news") = 1
    /\ Total(DeptUrl \o "/people/labs") = 3
    /\ Probed[1] = Ev("get", DeptUrl \o "/news")
    /\ Probed[2] = Ev("get", DeptUrl \o "/people/labs")
    /\ Cardinality(Candidates) = TopN + 1 /\ Len(Probed) = TopN
    /\ DeptUrl \o "/people/faculty/jane/labs" \notin Candidates

(***************************************************************************)
(* Where the description walk ends                                         *)
(***************************************************************************)

RankOf(tag) == CASE tag = "h1" -> 1 [] tag = "h2" -> 2 [] tag = "h3" -> 3 [] OTHER -> 4
\* the heading a returned record was made from: the first accepted one of
\* that name
HeadingOf(doc, name) ==
    MinOf({h \in 1..Len(doc) : doc[h].tag \in HeadingTags /\ GetText(doc, h) = name})
\* the first h1-h4 after heading h whose rank is equal or higher, or the end
\* of the document
EqualOrHigherAfter(doc, h) ==
    MinOf({j \in (h + 1)..Len(doc) :
              /\ doc[j].tag \in {"h1", "h2", "h3", "h4"}
              /\ RankOf(doc[j].tag) <= RankOf(doc[h].tag)} \cup {Len(doc) + 1})
\* the p/div/span/li elements of more than 40 characters between h and j
LongBlocks(doc, h, j) ==
    {b \in (h + 1)..(j - 1) : doc[b].tag \in BlockTags /\ Len(GetText(doc, b)) > MinBlockLen}

\* C25: the description of a record starts with the first long block between
\* its heading and the next heading of equal or higher rank (h1 included),
\* headings of lower rank in between notwithstanding, and is the fallback
\* snippet when there is no such block.
C25_EndsAtEqualOrHigher ==
    ext.pc = "done" =>
        \A k \in 1..Len(ext.ret) :
            LET doc == ext.page.doc
                h == HeadingOf(doc, ext.ret[k].name)
                blocks == LongBlocks(doc, h, EqualOrHigherAfter(doc, h))
            IN  IF blocks # {}
                THEN StartsWith(ext.ret[k].description, GetText(doc, MinOf(blocks)))
                ELSE ext.ret[k].description = WithFallback(doc, h, <<>>)[1]

\* <h2>Faculty: Ann Lee, Bob Ray</h2><h3><a href="/vision">Vision Lab</a></h3>
\* <p>long text</p>: the walk from the h2 ends at the h3, and the record of
\* the h2 is described by its own title, not by the paragraph
C25_Witness ==
    /\ ext.pc = "done" /\ Len(ext.ret) = 2
    /\ ext.page.doc[1].tag = "h2" /\ ext.page.doc[3].tag = "h3"
    /\ LongBlocks(ext.page.doc, 1, EqualOrHigherAfter(ext.page.doc, 1)) = {6}
    /\ ext.ret[1].name = "Faculty: Ann Lee, Bob Ray"
    /\ ext.ret[1].description = "Faculty: Ann Lee, Bob Ray"
    /\ ext.ret[2].name = "Vision Lab"
    /\ StartsWith(ext.ret[2].description, LongText)

(***************************************************************************)
(* The enrichment of the labs                                              *)
(***************************************************************************)

\* what the call just handled issued after find_research_url returned and
\* the research page was fetched (lines 775-807)
EnrichEv ==
    SubSeq(call.out.ev, Len(call.out.find.ev) + 2, Len(call.out.ev))

\* C26: a lab that extraction gave professors keeps them and causes no
\* request; for a lab without, the LLM is asked by URL only right after a
\* local scrape of the lab's page that found no names, and asked again with
\* the page text only right after an answer by URL without names and a fetch
\* of the page; no failure of these steps fails the call, and when none of
\* them finds a name the lab's professors and faculty stay empty.
C26_EnrichmentOrder ==
    call.pc = "done" /\ call.out.kind # "invalid" /\ call.out.find.kind = "url" =>
        LET raw == Extracted
            labs == call.out.labs
            ev == EnrichEv
            Scrape(u) == ScrapePersonnelSection(world, u)
        IN  /\ raw # <<>> => call.out.kind = "ok" /\ Len(labs) = Len(raw)
            /\ \A k \in 1..Len(labs) :
                  /\ raw[k].professors # <<>> =>
                        /\ labs[k].professors = raw[k].professors
                        /\ labs[k].professor_emails = raw[k].professor_emails
                  /\ /\ raw[k].professors = <<>>
                     /\ Scrape(labs[k].lab_url).people.names = <<>>
                     /\ GeminiExtractProfessors(world, labs[k].lab_url,
                                                CallCollege.s).people.names = <<>>
                     => labs[k].professors = <<>> /\ labs[k].faculty = <<>>
            /\ (\A k \in 1..Len(raw) : raw[k].professors # <<>>) => ev = <<>>
            /\ \A i \in 1..Len(ev) :
                  /\ ev[i][1] = "llm_professors" =>
                        /\ \E k \in 1..Len(labs) :
                              raw[k].professors = <<>> /\ labs[k].lab_url = ev[i][2]
                        /\ Scrape(ev[i][2]).people.names = <<>>
                        /\ i > Len(Scrape(ev[i][2]).ev)
                        /\ SubSeq(ev, i - Len(Scrape(ev[i][2]).ev), i - 1)
                              = Scrape(ev[i][2]).ev
                  /\ ev[i][1] = "llm_professors_text" =>
                        /\ i >= 3
                        /\ ev[i - 1] = Ev("get", ev[i][2])
                        /\ ev[i - 2] = Ev("llm_professors", ev[i][2])
                        /\ world.gemini_people.ok
                        /\ ParseAnswer(world.gemini_people).names = <<>>

\* the lab's page names nobody, the LLM asked by URL names nobody, and the
\* LLM asked with the page text names Grace Hopper: the three steps in order
C26_Witness ==
    /\ call.pc = "done" /\ call.out.kind = "ok"
    /\ Extracted[1].professors = <<>>
    /\ EnrichEv = << Ev("get", call.out.labs[1].lab_url),
                     Ev("llm_professors", call.out.labs[1].lab_url),
                     Ev("get", call.out.labs[1].lab_url),
                     Ev("llm_professors_text", call.out.labs[1].lab_url) >>
    /\ call.out.labs[1].professors = <<"Grace Hopper">>

(***************************************************************************)
(* The addresses of the local scrape                                       *)
(***************************************************************************)

\* the mailto anchors between the personnel heading of a page and the next
\* heading, and the name line 855 reads from an anchor
SectionEnd(doc) ==
    MinOf({j \in (PersonnelHeading(doc) + 1)..Len(doc) : doc[j].tag \in HeadingTags}
            \cup {Len(doc) + 1})
MailtoAnchors(doc) ==
    IF PersonnelHeading(doc) = 0 THEN {}
    ELSE {a \in (PersonnelHeading(doc) + 1)..(SectionEnd(doc) - 1) :
             doc[a].tag = "a" /\ StartsWith(doc[a].href, "mailto:")}
AnchorName(doc, a) ==
    IF IsNone(ProfNameSearch(GetText(doc, a))) THEN GetText(doc, a)
    ELSE Strip(Val(ProfNameSearch(GetText(doc, a))))

\* C27: for a lab whose professors come from the local scrape, every mailto
\* anchor of the personnel section gives a name bound to the anchor's address
\* in the email map, and the faculty entry of that name carries the address.
C27_MailtoAddressKept ==
    call.pc = "done" /\ call.out.kind = "ok" =>
        \A k \in 1..Len(call.out.labs) :
            LET lab == call.out.labs[k]
                doc == HttpGet(world, lab.lab_url).doc
            IN  Extracted[k].professors = <<>> =>
                    \A a \in MailtoAnchors(doc) :
                        AnchorName(doc, a) # "" =>
                            /\ DictGet(lab.professor_emails, AnchorName(doc, a), "")
                                  = MailtoAddress(doc[a].href)
                            /\ \E f \in 1..Len(lab.faculty) :
                                  /\ lab.faculty[f].name = AnchorName(doc, a)
                                  /\ lab.faculty[f].email = MailtoAddress(doc[a].href)

\* Ada Byron is read from her mailto anchor, the email map stays empty and
\* her faculty entry carries the guessed address
C27_Witness ==
    /\ call.pc = "done" /\ call.out.kind = "ok"
    /\ Extracted[1].professors = <<>>
    /\ HttpGet(world, call.out.labs[1].lab_url).doc = MembersPage
    /\ MailtoAnchors(MembersPage) = {5}
    /\ MailtoAddress(MembersPage[5].href) = "ada.byron@cc.gatech.edu"
    /\ call.out.labs[1].professors = <<"Ada Byron">>
    /\ call.out.labs[1].professor_emails = EmptyDict
    /\ call.out.labs[1].faculty
          = <<[name |-> "Ada Byron", role |-> "Professor", email |-> "abyron@cs.gatech.edu"]>>

(***************************************************************************)
(* The entries of the LLM-suggestion cache                                 *)
(***************************************************************************)

\* the call just handled asked the LLM for the research page
LLMAsked ==
    /\ call.pc = "done" /\ call.out.kind # "invalid"
    /\ InSeq(Ev("llm_suggest", CallCollege.s \o "|" \o Fmt(call.out.major)),
             call.out.find.ev)
\* the URL of the answer passes the tests of lines 137 and 142
LLMUrlPasses ==
    /\ ~IsNone(LLMUrl)
    /\ Contains(Val(LLMUrl), Val(CallRoot.dom))
    /\ \E token \in {"research", "labs", "groups"} : Contains(Lower(Val(LLMUrl)), token)

\* C28: after a call with a string major that asked the LLM, the cache holds
\* under the call's key the accepted URL, or the negative entry (null, time
\* of the call) when no URL was accepted.
C28_OutcomeRecorded ==
    LLMAsked /\ call.out.major.t = "str" =>
        LET key == CacheKey(CallCollege.s, call.out.major)
        IN  /\ key \in DOMAIN cache
            /\ cache[key].ts = call.at
            /\ cache[key].url = IF LLMUrlPasses THEN LLMUrl ELSE None

\* the LLM answers "unknown": the call ends without an accepted URL and the
\* cache is as empty as before
C28_Witness ==
    /\ LLMAsked /\ call.out.major.t = "str"
    /\ world.gemini_suggest.ok /\ world.gemini_suggest.text = "unknown"
    /\ IsNone(LLMUrl)
    /\ call.out.puts = <<>>
    /\ CacheKey(CallCollege.s, call.out.major) \notin DOMAIN cache

(***************************************************************************)
(* The description of a record                                             *)
(***************************************************************************)

\* the blocks a description is joined from: the pairs <<a, b>> of neighbouring
\* line breaks (or ends) of the description, the block lying between them
Breaks(description) ==
    {0, Len(description) + 1}
        \cup {i \in 1..Len(description) : Ch(description, i) = "\n"}
BlocksOf(description) ==
    {p \in Breaks(description) \X Breaks(description) :
        /\ p[1] < p[2]
        /\ \A i \in Breaks(description) : ~(p[1] < i /\ i < p[2])}
BlockText(description, p) == SubSeq(description, p[1] + 1, p[2] - 1)

\* C29: the description of every record _extract_lab_areas returns is not
\* empty and holds at most three blocks, no block twice.
C29_DescriptionNeverEmpty ==
    ext.pc = "done" =>
        \A k \in 1..Len(ext.ret) :
            /\ ext.ret[k].description # ""
            /\ Cardinality(BlocksOf(ext.ret[k].description)) <= MaxBlocks
            /\ \A p, q \in BlocksOf(ext.ret[k].description) :
                  p # q => BlockText(ext.ret[k].description, p)
                              # BlockText(ext.ret[k].description, q)

\* <h3>\n<a href="/robots">Robot Lab</a></h3> and nothing after it: the
\* string that follows the opening tag is the line break before the link,
\* and the record of the heading has the empty description
C29_Witness ==
    /\ ext.pc = "done" /\ Len(ext.page.doc) = 4
    /\ ext.page.doc[FindNextString(ext.page.doc, 1)].text = "\n"
    /\ WithFallback(ext.page.doc, 1, <<>>) = <<"">>
    /\ Len(ext.ret) = 1
    /\ ext.ret[1].name = "Robot Lab" /\ ext.ret[1].description = ""

(***************************************************************************)
(* The failures of discover_labs_data                                      *)
(***************************************************************************)

\* C30: a call that passed the check of line 763 returns a catalog or raises
\* the ValueError of line 818, whose message names the college and ends with
\* the message of what went wrong: the exception find_research_url raised,
\* whatever its type, or the report that no lab was extracted; the adapter
\* answers a body with the key "college" with 200 or 400, never 500.
C30_FailuresAreValueErrors ==
    call.pc = "done" /\ ~Rejected(call.body) =>
        /\ call.out.kind \in {"ok", "failed"}
        /\ call.out.kind = "failed" <=>
              call.out.find.kind = "raise" \/ Extracted = <<>>
        /\ call.out.find.kind = "raise" =>
              call.out.error = FailurePrefix \o call.out.find.msg
        /\ call.out.find.kind = "url" /\ Extracted = <<>> =>
              call.out.error = FailurePrefix
                    \o "Unable to extract research areas from discovered page"
        /\ call.body.college.t # "absent" =>
              RouterStatus(call.out) = IF call.out.kind = "ok" THEN 200 ELSE 400

\* the GET of the department home page fails: the RequestException leaves
\* discover_labs_data as a ValueError and the adapter answers with 400
C30_Witness ==
    /\ call.pc = "done" /\ ~Rejected(call.body) /\ call.body.college.t = "str"
    /\ call.out.find.kind = "raise" /\ call.out.find.err = "RequestException"
    /\ call.out.kind = "failed"
    /\ call.out.error = "Could not find research information for Georgia Tech. Error: "
                            \o call.out.find.msg
    /\ RouterStatus(call.out) = 400

====
